---------------------------- MODULE Spec2Model ----------------------------
(***************************************************************************)
(* A model of rlox, a tree-walking interpreter for a Lox dialect:          *)
(* the scanner (src/src/scanner.rs), the recursive-descent parser          *)
(* (src/src/parser.rs), the evaluator and its environment chain            *)
(* (src/src/vm.rs, src/src/environment.rs) and the driver                  *)
(* (src/src/main.rs).                                                      *)
(*                                                                         *)
(* Each Rust struct is one record-valued variable (scanner, parser, vm);   *)
(* the caller-supplied diagnostic list is the variable errors.  A source   *)
(* text is a sequence of characters (one-character strings); byte offsets  *)
(* are computed from the UTF-8 width of each character.  A Rust panic      *)
(* (a failed unwrap, a slice out of range, an arithmetic overflow) is the  *)
(* value "panicked" of the pc field of the struct that panicked.           *)
(***************************************************************************)
EXTENDS Integers, Sequences, FiniteSets, TLC

VARIABLES
    scanner,    \* Scanner: source, the chars iterator, start, current, line, tokens
    errors,     \* the diagnostic list shared by Scanner and Parser
    parser,     \* Parser: tokens, current, and the statements parse() collects
    vm,         \* Vm: the current environment and the environment cells, with
                \* the lines printed and the log of the execute_block calls
    driver      \* main.rs: mode, argument, pending input, stage, exit code,
                \* standard error; in the other specifications, the caller

vars == <<scanner, errors, parser, vm, driver>>

(***************************************************************************)
(* Bounds of the model.                                                    *)
(***************************************************************************)
MaxSourceLen == 4
MaxTokens == 3
MaxLeftParens == 1
MaxIterations == 3
MaxStatements == 3
MaxBlockLen == 2
MaxScopes == 3
MaxLines == 2

(***************************************************************************)
(* Characters.                                                             *)
(***************************************************************************)
NoChar == ""

Digits == {"0", "1", "2", "3", "4", "5", "6", "7", "8", "9"}

Letters ==
    {"a", "b", "c", "d", "e", "f", "g", "h", "i", "j", "k", "l", "m",
     "n", "o", "p", "q", "r", "s", "t", "u", "v", "w", "x", "y", "z",
     "A", "B", "C", "D", "E", "F", "G", "H", "I", "J", "K", "L", "M",
     "N", "O", "P", "Q", "R", "S", "T", "U", "V", "W", "X", "Y", "Z",
     "é"}

\* The characters of the model that take two bytes in UTF-8 are é and §.
len_utf8(c) == IF c \in {"é", "§"} THEN 2 ELSE 1

is_ascii_digit(c) == c \in Digits

is_alphanumeric(c) == c \in Letters \cup Digits

DigitValue(c) ==
    CASE c = "0" -> 0 [] c = "1" -> 1 [] c = "2" -> 2 [] c = "3" -> 3
      [] c = "4" -> 4 [] c = "5" -> 5 [] c = "6" -> 6 [] c = "7" -> 7
      [] c = "8" -> 8 [] c = "9" -> 9

RECURSIVE Str(_)
\* The String holding the characters of a character sequence.
Str(cs) == IF cs = <<>> THEN "" ELSE Head(cs) \o Str(Tail(cs))

(***************************************************************************)
(* Byte offsets into a source text (str indexing and slicing).             *)
(***************************************************************************)
RECURSIVE ByteLen(_)
ByteLen(cs) == IF cs = <<>> THEN 0 ELSE len_utf8(Head(cs)) + ByteLen(Tail(cs))

\* Byte offset b falls on a character boundary of cs (0 and ByteLen(cs) do).
IsCharBoundary(cs, b) ==
    \E k \in 0..Len(cs) : ByteLen(SubSeq(cs, 1, k)) = b

\* The number of characters before byte offset b, a character boundary.
CharsBefore(cs, b) ==
    CHOOSE k \in 0..Len(cs) : ByteLen(SubSeq(cs, 1, k)) = b

\* &cs[a..b] panics unless a <= b and both are character boundaries.
SliceOk(cs, a, b) == a <= b /\ IsCharBoundary(cs, a) /\ IsCharBoundary(cs, b)

Slice(cs, a, b) == SubSeq(cs, CharsBefore(cs, a) + 1, CharsBefore(cs, b))


(***************************************************************************)
(* Numbers.  An f64 is modelled as a fraction <<n, d>> in lowest terms     *)
(* with d > 0; <<1, 0>>, <<-1, 0>> and <<0, 0>> stand for the infinities   *)
(* and NaN.  The sources and programs of the model use numbers whose       *)
(* arithmetic is exact in f64.                                             *)
(***************************************************************************)
Abs(n) == IF n < 0 THEN -n ELSE n

RECURSIVE GCD(_, _)
GCD(a, b) == IF b = 0 THEN a ELSE GCD(b, a % b)

Rat(n, d) ==
    IF n = 0 THEN <<0, 1>>
    ELSE LET g == GCD(Abs(n), Abs(d))
             sgn == IF d < 0 THEN -1 ELSE 1
         IN <<(sgn * n) \div g, (sgn * d) \div g>>

Whole(n) == <<n, 1>>
NaN == <<0, 0>>

RECURSIVE Pow10(_)
Pow10(k) == IF k = 0 THEN 1 ELSE 10 * Pow10(k - 1)

RECURSIVE DecimalValue(_)
DecimalValue(cs) ==
    IF cs = <<>> THEN 0
    ELSE 10 * DecimalValue(SubSeq(cs, 1, Len(cs) - 1)) + DigitValue(cs[Len(cs)])

AllDigits(cs) == \A i \in 1..Len(cs) : cs[i] \in Digits

\* The index of the first character of cs that is in set S, or 0.
FirstIn(cs, S) ==
    IF \E i \in 1..Len(cs) : cs[i] \in S
    THEN CHOOSE i \in 1..Len(cs) : cs[i] \in S /\ \A j \in 1..(i - 1) : cs[j] \notin S
    ELSE 0

\* str::to_ascii_lowercase, on the letters that matter to str::parse::<f64>.
LowerStr(cs) ==
    LET to_ascii_lowercase(c) ==
            CASE c = "I" -> "i" [] c = "N" -> "n" [] c = "F" -> "f"
              [] c = "A" -> "a" [] c = "T" -> "t" [] c = "Y" -> "y"
              [] OTHER -> c
    IN Str([i \in 1..Len(cs) |-> to_ascii_lowercase(cs[i])])

(***************************************************************************)
(* str::parse::<f64>: an optional sign, then either digits with an         *)
(* optional '.' (at least one digit in all) and an optional exponent, or   *)
(* one of inf, infinity, nan in any case.  The result is                   *)
(* [ok |-> FALSE] for an Err and [ok |-> TRUE, value |-> fraction] for Ok. *)
(***************************************************************************)
ParseFloatErr == [ok |-> FALSE, value |-> NaN]

ParseDecimal(body, sign) ==
    LET e == FirstIn(body, {"e", "E"})
        mant == IF e = 0 THEN body ELSE SubSeq(body, 1, e - 1)
        expo == IF e = 0 THEN <<>> ELSE SubSeq(body, e + 1, Len(body))
        exsigned == expo # <<>> /\ Head(expo) \in {"+", "-"}
        exdigits == IF exsigned THEN Tail(expo) ELSE expo
        dot == FirstIn(mant, {"."})
        ip == IF dot = 0 THEN mant ELSE SubSeq(mant, 1, dot - 1)
        fp == IF dot = 0 THEN <<>> ELSE SubSeq(mant, dot + 1, Len(mant))
        mantOk == AllDigits(ip) /\ AllDigits(fp) /\ Len(ip) + Len(fp) >= 1
        expOk == e = 0 \/ (exdigits # <<>> /\ AllDigits(exdigits))
    IN IF ~(mantOk /\ expOk) THEN ParseFloatErr
       ELSE LET m == sign * DecimalValue(ip \o fp)
                x == IF e = 0 THEN 0
                     ELSE (IF exsigned /\ Head(expo) = "-" THEN -1 ELSE 1)
                          * DecimalValue(exdigits)
                shift == x - Len(fp)
            IN [ok |-> TRUE,
                value |-> IF shift >= 0 THEN Rat(m * Pow10(shift), 1)
                          ELSE Rat(m, Pow10(-shift))]

ParseFloat(text) ==
    IF text = <<>> THEN ParseFloatErr
    ELSE LET signed == Head(text) \in {"+", "-"}
             sign == IF Head(text) = "-" THEN -1 ELSE 1
             body == IF signed THEN Tail(text) ELSE text
         IN IF body = <<>> THEN ParseFloatErr
            ELSE IF LowerStr(body) \in {"inf", "infinity"}
                 THEN [ok |-> TRUE, value |-> <<sign, 0>>]
            ELSE IF LowerStr(body) = "nan" THEN [ok |-> TRUE, value |-> NaN]
            ELSE ParseDecimal(body, sign)

(***************************************************************************)
(* Tokens (crate::token).  Every token is a record of the same shape: the  *)
(* variant name, the line, and the carried value (a number for Number,    *)
(* the text for String and Identifier, the Boolean for True and False).   *)
(***************************************************************************)
Token(type, line) ==
    [type |-> type, line |-> line, number |-> Whole(0), text |-> "",
     bool |-> (type = "True")]

NumberToken(line, value) == [Token("Number", line) EXCEPT !.number = value]
StringToken(line, value) == [Token("String", line) EXCEPT !.text = value]
IdentifierToken(line, value) == [Token("Identifier", line) EXCEPT !.text = value]
Eof == Token("Eof", 0)

KeywordType(text) ==
    CASE text = "and" -> "And" [] text = "class" -> "Class"
      [] text = "else" -> "Else" [] text = "false" -> "False"
      [] text = "for" -> "For" [] text = "fun" -> "Fun"
      [] text = "if" -> "If" [] text = "nil" -> "Nil"
      [] text = "or" -> "Or" [] text = "print" -> "Print"
      [] text = "return" -> "Return" [] text = "super" -> "Super"
      [] text = "this" -> "This" [] text = "true" -> "True"
      [] text = "var" -> "Var" [] text = "while" -> "While"

SingleCharType(c) ==
    CASE c = "(" -> "LeftParen" [] c = ")" -> "RightParen"
      [] c = "{" -> "LeftBrace" [] c = "}" -> "RightBrace"
      [] c = "," -> "Comma" [] c = "." -> "Dot"
      [] c = "-" -> "Minus" [] c = "+" -> "Plus"
      [] c = ";" -> "Semicolon" [] c = "*" -> "Star"

OneOrTwoCharType(c, followed) ==
    CASE c = "!" -> (IF followed THEN "BangEqual" ELSE "Bang")
      [] c = "=" -> (IF followed THEN "EqualEqual" ELSE "Equal")
      [] c = "<" -> (IF followed THEN "LessEqual" ELSE "Less")
      [] c = ">" -> (IF followed THEN "GreaterEqual" ELSE "Greater")

(***************************************************************************)
(* The scanner (src/src/scanner.rs).  The operators below work on a record *)
(* s holding the fields of the Scanner, the position of the `chars`        *)
(* iterator of scan() (the number of characters it has yielded) and the    *)
(* diagnostic list.  Peekable::peek does not move the iterator, so the     *)
(* position alone is its state.                                            *)
(***************************************************************************)
Scanner_new(source) ==
    [source |-> source, chars |-> 0, start |-> 0, current |-> 0, line |-> 1,
     tokens |-> <<>>, pc |-> "scanning"]

\* chars.peek(): the next character of the iterator, NoChar for None.
chars_peek(s) ==
    IF s.chars < Len(s.source) THEN s.source[s.chars + 1] ELSE NoChar

\* Scanner::advance: the state after chars.next(); it returns chars_peek(s).
Scanner_advance(s) ==
    IF s.chars < Len(s.source)
    THEN [s EXCEPT !.chars = @ + 1,
                   !.current = @ + len_utf8(s.source[s.chars + 1])]
    ELSE s

push_token(s, token) == [s EXCEPT !.tokens = Append(@, token)]

push_error(s, message) == [s EXCEPT !.errors = Append(@, message)]

panic(s) == [s EXCEPT !.pc = "panicked"]

match_char(s, expected) ==
    IF s.current >= ByteLen(s.source) THEN [matched |-> FALSE, s |-> s]
    ELSE IF chars_peek(s) = expected
         THEN [matched |-> TRUE, s |-> Scanner_advance(s)]
         ELSE [matched |-> FALSE, s |-> s]

\* The length of the longest run of characters after position from that
\* are all in (within = TRUE) or all outside (within = FALSE) the set S.
RunLength(cs, from, S, within) ==
    CHOOSE k \in 0..(Len(cs) - from) :
        /\ \A i \in 1..k : (cs[from + i] \in S) = within
        /\ from + k = Len(cs) \/ (cs[from + k + 1] \in S) # within

\* Iterator::take_while over the rest of `chars`: it yields the run, and the
\* iterator has then also yielded, and lost, the character that ended the run.
take_while_consumed(cs, from, run) ==
    IF from + run < Len(cs) THEN run + 1 ELSE run

\* The branch of scan_token for a `//` comment, after both slashes.
line_comment(s) ==
    LET run == RunLength(s.source, s.chars, {"\n"}, FALSE)
        comment == SubSeq(s.source, s.chars + 1, s.chars + run)
    IN [s EXCEPT !.chars = @ + take_while_consumed(s.source, s.chars, run),
                 !.current = @ + ByteLen(comment) + 1]

identifier(s) ==
    LET run == RunLength(s.source, s.chars, Letters \cup Digits \cup {"_"}, TRUE)
        a == [s EXCEPT !.chars = @ + run,
                       !.current = @ + ByteLen(SubSeq(s.source, s.chars + 1,
                                                      s.chars + run))]
    IN IF ~SliceOk(a.source, a.start, a.current) THEN panic(a)
       ELSE LET text == Str(Slice(a.source, a.start, a.current))
            IN IF text \in {"and", "class", "else", "false", "for", "fun", "if",
                           "nil", "or", "print", "return", "super", "this",
                           "true", "var", "while"}
               THEN push_token(a, Token(KeywordType(text), a.line))
               ELSE push_token(a, IdentifierToken(a.line, text))

\* The fractional part of number(): entered when source[current..] starts
\* with '.'; b is the state after the integer digits.
number_fraction(b) ==
    LET dot == CharsBefore(b.source, b.current) + 1
        next_is_digit == dot + 1 <= Len(b.source)
                         /\ is_ascii_digit(b.source[dot + 1])
    IN IF ~next_is_digit THEN b
       ELSE LET c == Scanner_advance(b)
                digits == RunLength(c.source, c.chars, Digits, TRUE)
            IN [c EXCEPT !.chars = @ + take_while_consumed(c.source, c.chars,
                                                           digits),
                         !.current = @ + digits]

number(s) ==
    LET run == RunLength(s.source, s.chars, Digits, TRUE)
        b == [s EXCEPT !.chars = @ + run, !.current = @ + run]
    IN IF ~IsCharBoundary(b.source, b.current) THEN panic(b)
       ELSE LET rest == CharsBefore(b.source, b.current)
                starts_with_dot == rest < Len(b.source)
                                   /\ b.source[rest + 1] = "."
                d == IF starts_with_dot THEN number_fraction(b) ELSE b
            IN IF ~SliceOk(d.source, d.start, d.current) THEN panic(d)
               ELSE LET parsed == ParseFloat(Slice(d.source, d.start, d.current))
                    IN IF ~parsed.ok THEN panic(d)
                       ELSE push_token(d, NumberToken(d.line, parsed.value))

string(s) ==
    LET run == RunLength(s.source, s.chars, {"\""}, FALSE)
        string_value == SubSeq(s.source, s.chars + 1, s.chars + run)
        newlines == Cardinality({i \in 1..run : string_value[i] = "\n"})
        b == [s EXCEPT !.chars = @ + run,
                       !.current = @ + ByteLen(string_value),
                       !.line = @ + newlines]
        closing_quote == chars_peek(b)
        c == Scanner_advance(b)
    IN IF closing_quote # NoChar
       THEN push_token([c EXCEPT !.current = @ + len_utf8(closing_quote)],
                       StringToken(c.line, Str(string_value)))
       ELSE push_error(c, "Unterminated string at line " \o ToString(c.line))

scan_token(s) ==
    LET char == chars_peek(s)
        a == Scanner_advance(s)
    IN IF char = NoChar THEN a
       ELSE IF char \in {"(", ")", "{", "}", ",", ".", "-", "+", ";", "*"}
            THEN push_token(a, Token(SingleCharType(char), a.line))
       ELSE IF char \in {"!", "=", "<", ">"}
            THEN LET m == match_char(a, "=")
                 IN push_token(m.s, Token(OneOrTwoCharType(char, m.matched),
                                          m.s.line))
       ELSE IF char = "/"
            THEN LET m == match_char(a, "/")
                 IN IF m.matched THEN line_comment(m.s)
                    ELSE push_token(m.s, Token("Slash", m.s.line))
       ELSE IF char \in {" ", "\r", "\t"} THEN a
       ELSE IF char = "\n" THEN [a EXCEPT !.line = @ + 1]
       ELSE IF char = "\"" THEN string(a)
       ELSE IF is_ascii_digit(char) THEN number(a)
       ELSE IF is_alphanumeric(char) \/ char = "_" THEN identifier(a)
       ELSE push_error(a, "Unexpected character '" \o char \o "' at line "
                          \o ToString(a.line))

\* The Scanner and the diagnostic list as one record, and back.
WithErrors(sc, errs) ==
    [source |-> sc.source, chars |-> sc.chars, start |-> sc.start,
     current |-> sc.current, line |-> sc.line, tokens |-> sc.tokens,
     pc |-> sc.pc, errors |-> errs]

ScannerOf(s) ==
    [source |-> s.source, chars |-> s.chars, start |-> s.start,
     current |-> s.current, line |-> s.line, tokens |-> s.tokens, pc |-> s.pc]

(***************************************************************************)
(* The syntax tree (crate::ast, as parser.rs and vm.rs build and match     *)
(* it).  A LiteralValue and a Value are records of one shape.              *)
(***************************************************************************)
NumberValue(n) == [type |-> "Number", number |-> n, text |-> "", bool |-> FALSE]
StringValue(s) == [type |-> "String", number |-> Whole(0), text |-> s, bool |-> FALSE]
BooleanValue(b) == [type |-> "Boolean", number |-> Whole(0), text |-> "", bool |-> b]
NilValue == [type |-> "Nil", number |-> Whole(0), text |-> "", bool |-> FALSE]

Literal(value) == [kind |-> "Literal", value |-> value]
Variable(token) == [kind |-> "Variable", token |-> token]
Grouping(expression) == [kind |-> "Grouping", expression |-> expression]
Unary(operator, right) == [kind |-> "Unary", operator |-> operator, right |-> right]
Binary(left, operator, right) ==
    [kind |-> "Binary", left |-> left, operator |-> operator, right |-> right]
Logical(left, operator, right) ==
    [kind |-> "Logical", left |-> left, operator |-> operator, right |-> right]
Assignment(name, value) == [kind |-> "Assignment", name |-> name, value |-> value]

ExpressionStatement(expression) == [kind |-> "Expression", expression |-> expression]
PrintStatement(expression) == [kind |-> "Print", expression |-> expression]
VariableStatement(name, value) == [kind |-> "Variable", name |-> name, value |-> value]
BlockStatement(statements) == [kind |-> "Block", statements |-> statements]
IfStatement(condition, then_branch, else_branch) ==
    [kind |-> "If", condition |-> condition, then_branch |-> then_branch,
     else_branch |-> else_branch]
WhileStatement(condition, body) ==
    [kind |-> "While", condition |-> condition, body |-> body]

\* Option<Box<Statement>>::None and the statement of a failed Result.
NoStatement == [kind |-> "None"]

(***************************************************************************)
(* The parser (src/src/parser.rs).  The operators work on a record p       *)
(* holding the fields of the Parser and the diagnostic list.  An           *)
(* expression parser yields [p, expr]; a statement parser yields           *)
(* [p, ok, stmt, message], ok = FALSE standing for Err(message), or for a  *)
(* panic when p.pc = "panicked" (a panic unwinds through the same callers  *)
(* as `?` does).                                                           *)
(***************************************************************************)
NoToken == Token("None", 0)

Parser_new(tokens, overflow_checks) ==
    [tokens |-> tokens, current |-> 0, statements |-> <<>>, pc |-> "parsing",
     overflow_checks |-> overflow_checks]

Parser_peek(p) ==
    IF p.current + 1 <= Len(p.tokens) THEN p.tokens[p.current + 1] ELSE NoToken

\* Parser::previous computes current - 1 in usize: with current = 0 a build
\* with overflow checks panics, and one without them wraps around and gets
\* None from tokens.get.
previous_overflows(p) == p.current = 0 /\ p.overflow_checks

Parser_previous(p) ==
    IF p.current >= 1 /\ p.current <= Len(p.tokens) THEN p.tokens[p.current]
    ELSE NoToken

\* Parser::advance: the state after it; it returns Parser_previous of it.
Parser_advance(p) ==
    LET a == IF Parser_peek(p).type \notin {"None", "Eof"}
             THEN [p EXCEPT !.current = @ + 1] ELSE p
    IN IF previous_overflows(a) THEN panic(a) ELSE a

\* The result of an expression parser: the parser after it, the expression,
\* and whether the call unwound with a panic.
Parsed(p, expr) == [p |-> p, expr |-> expr, panicked |-> p.pc = "panicked"]

\* The results of a statement parser.
Ok(p, stmt) == [p |-> p, ok |-> TRUE, stmt |-> stmt, message |-> ""]
Err(p, message) == [p |-> p, ok |-> FALSE, stmt |-> NoStatement, message |-> message]

\* format!("[line {}] Error: {}", ...) over self.previous().unwrap().line():
\* the message, or a panic when there is no previous token.
ErrorAtPrevious(p, text) ==
    "[line " \o ToString(Parser_previous(p).line) \o "] Error: " \o text

ErrorAtLine(line, text) == "[line " \o ToString(line) \o "] Error: " \o text

\* The call of one parsing method from another goes through parse_rule:
\* parse_rule(name, p) is name(p).  The operators below that take the result
\* of such a call are the rest of the method after the call; a result that
\* unwound with a panic passes through them unchanged.
RECURSIVE parse_rule(_, _)
RECURSIVE factor_loop(_)
RECURSIVE term_loop(_)
RECURSIVE comparison_loop(_)
RECURSIVE equality_loop(_)
RECURSIVE and_loop(_)
RECURSIVE or_loop(_)
RECURSIVE block_loop(_, _)

\* The grouping branch of primary after self.expression(): inner is the
\* parenthesised expression and the parser after it.
primary_grouping(inner) ==
    IF inner.panicked THEN inner ELSE
    LET q == inner.p
        other == Parser_peek(q)
        closed ==
            CASE other.type = "RightParen" -> Parser_advance(q)
              [] other.type = "None" ->
                    IF q.current = 0 THEN panic(q)
                    ELSE push_error(q, ErrorAtPrevious(q, "Expected ')' after expression."))
              [] OTHER ->
                    push_error(q, "[line " \o ToString(other.line)
                                  \o "] Error at '(': Expect ')' after expression.")
    IN Parsed(closed, Grouping(inner.expr))

primary(p) ==
    LET token == Parser_peek(p)
    IN CASE token.type \in {"False", "True"} ->
                Parsed(Parser_advance(p), Literal(BooleanValue(token.bool)))
         [] token.type = "Nil" -> Parsed(Parser_advance(p), Literal(NilValue))
         [] token.type = "Number" ->
                Parsed(Parser_advance(p), Literal(NumberValue(token.number)))
         [] token.type = "Identifier" -> Parsed(Parser_advance(p), Variable(token))
         [] token.type = "LeftParen" ->
                primary_grouping(parse_rule("expression", Parser_advance(p)))
         [] OTHER -> Parsed(p, Literal(NilValue))

unary_operand(operator, right) == Parsed(right.p, Unary(operator, right.expr))

unary(p) ==
    IF Parser_peek(p).type \in {"Bang", "Minus"}
    THEN unary_operand(Parser_previous(Parser_advance(p)),
                       parse_rule("unary", Parser_advance(p)))
    ELSE parse_rule("primary", p)

\* The loop of each binary method: left is the expression so far and the
\* parser after it.
factor_loop(left) ==
    IF left.panicked THEN left
    ELSE IF Parser_peek(left.p).type \in {"Slash", "Star"}
    THEN LET a == Parser_advance(left.p)
             right == parse_rule("unary", a)
         IN factor_loop(Parsed(right.p,
                               Binary(left.expr, Parser_previous(a), right.expr)))
    ELSE left

\* A variant of term_loop that parses its right operand as a term, which
\* makes `-` and `+` associate to the right.
term_loop_right_associative(left) ==
    IF left.panicked THEN left
    ELSE IF Parser_peek(left.p).type \in {"Minus", "Plus"}
    THEN LET a == Parser_advance(left.p)
             right == parse_rule("term", a)
         IN Parsed(right.p, Binary(left.expr, Parser_previous(a), right.expr))
    ELSE left

term_loop(left) ==
    IF left.panicked THEN left
    ELSE IF Parser_peek(left.p).type \in {"Minus", "Plus"}
    THEN LET a == Parser_advance(left.p)
             right == parse_rule("factor", a)
         IN term_loop(Parsed(right.p,
                             Binary(left.expr, Parser_previous(a), right.expr)))
    ELSE left

comparison_loop(left) ==
    IF left.panicked THEN left
    ELSE IF Parser_peek(left.p).type \in {"Greater", "GreaterEqual", "Less", "LessEqual"}
    THEN LET a == Parser_advance(left.p)
             right == parse_rule("term", a)
         IN comparison_loop(Parsed(right.p,
                                   Binary(left.expr, Parser_previous(a), right.expr)))
    ELSE left

equality_loop(left) ==
    IF left.panicked THEN left
    ELSE IF Parser_peek(left.p).type \in {"BangEqual", "EqualEqual"}
    THEN LET a == Parser_advance(left.p)
             right == parse_rule("comparison", a)
         IN equality_loop(Parsed(right.p,
                                 Binary(left.expr, Parser_previous(a), right.expr)))
    ELSE left

and_loop(left) ==
    IF left.panicked THEN left
    ELSE IF Parser_peek(left.p).type = "And"
    THEN LET a == Parser_advance(left.p)
             right == parse_rule("equality", a)
         IN and_loop(Parsed(right.p,
                            Logical(left.expr, Parser_previous(a), right.expr)))
    ELSE left

or_loop(left) ==
    IF left.panicked THEN left
    ELSE IF Parser_peek(left.p).type = "Or"
    THEN LET a == Parser_advance(left.p)
             right == parse_rule("and", a)
         IN or_loop(Parsed(right.p,
                           Logical(left.expr, Parser_previous(a), right.expr)))
    ELSE left

\* A variant of assignment_value that drops the value of an invalid target
\* without a diagnostic.
assignment_value_silent(left, value) ==
    IF value.panicked THEN value
    ELSE IF left.kind = "Variable"
    THEN Parsed(value.p, Assignment(left.token, value.expr))
    ELSE Parsed(value.p, left)

\* assignment after '=' and self.assignment(): left is the target, value
\* the assigned expression and the parser after it.
assignment_value(left, value) ==
    IF value.panicked THEN value
    ELSE IF left.kind = "Variable"
    THEN Parsed(value.p, Assignment(left.token, value.expr))
    ELSE IF value.p.current = 0 THEN Parsed(panic(value.p), left)
    ELSE Parsed(push_error(value.p,
                           ErrorAtPrevious(value.p, "Invalid assignment target.")),
                left)

\* assignment after self.or().
assignment_target(left) ==
    IF left.panicked THEN left
    ELSE IF Parser_peek(left.p).type = "Equal"
    THEN assignment_value(left.expr, parse_rule("assignment", Parser_advance(left.p)))
    ELSE left

\* A variant of record_and_fail that returns the error without recording it:
\* with it every failing declaration records its message once.
record_and_fail_unrecorded(p, text) ==
    IF Parser_previous(p).type = "None" THEN Err(panic(p), "")
    ELSE Err(p, ErrorAtPrevious(p, text))

\* The arm of a statement parser that finds its terminator or punctuator
\* missing: it formats the message with the line of the previous token
\* (a panic when there is none), records it and returns it as the error.
record_and_fail(p, text) ==
    IF Parser_previous(p).type = "None" THEN Err(panic(p), "")
    ELSE LET message == ErrorAtPrevious(p, text)
         IN Err(push_error(p, message), message)

\* var_declaration after the initializer: name is the identifier token.
var_declaration_end(name, initializer) ==
    IF initializer.panicked THEN Err(initializer.p, "")
    ELSE IF Parser_peek(initializer.p).type = "Semicolon"
    THEN Ok(Parser_advance(initializer.p),
            VariableStatement(name, initializer.expr))
    ELSE Err(initializer.p,
             ErrorAtLine(name.line, "Expected ';' after variable declaration."))

var_declaration(p) ==
    LET a == Parser_advance(p)
        other == Parser_previous(a)
    IN CASE other.type = "None" -> Err(panic(a), "")
         [] other.type # "Identifier" ->
                Err(a, ErrorAtLine(other.line, "Expected variable name."))
         [] other.type = "Identifier" /\ Parser_peek(a).type # "Equal" ->
                Err(a, ErrorAtLine(other.line, "Expected '=' after variable name."))
         [] OTHER ->
                var_declaration_end(other, parse_rule("expression", Parser_advance(a)))

while_body(condition, body) ==
    IF ~body.ok THEN body
    ELSE Ok(body.p, WhileStatement(condition, body.stmt))

while_condition(condition) ==
    IF condition.panicked THEN Err(condition.p, "")
    ELSE IF Parser_peek(condition.p).type = "RightParen"
    THEN while_body(condition.expr,
                    parse_rule("statement", Parser_advance(condition.p)))
    ELSE record_and_fail(condition.p, "Expected ')' after while condition.")

while_statement(p) ==
    IF Parser_peek(p).type = "LeftParen"
    THEN while_condition(parse_rule("expression", Parser_advance(p)))
    ELSE record_and_fail(p, "Expected '(' after 'while'.")

\* block after self.declaration(): the ? operator, then the push.
block_push(statements, inner) ==
    IF ~inner.ok THEN inner
    ELSE block_loop(inner.p, Append(statements, inner.stmt))

block_loop(p, statements) ==
    LET token == Parser_peek(p)
    IN CASE token.type = "None" -> Ok(p, BlockStatement(statements))
         [] token.type = "RightBrace" ->
                Ok(Parser_advance(p), BlockStatement(statements))
         [] token.type = "Eof" ->
                IF Parser_previous(p).type = "None" THEN Err(panic(p), "")
                ELSE Err(p, ErrorAtPrevious(p, "Expected '}' after block, but found EOF"))
         [] OTHER -> block_push(statements, parse_rule("declaration", p))

block(p) == block_loop(p, <<>>)

\* A variant of print_statement_end that takes the line of its message from
\* the token ahead instead of the previous one.
print_statement_end_at_peek(value) ==
    IF value.panicked THEN Err(value.p, "")
    ELSE IF Parser_peek(value.p).type = "Semicolon"
    THEN Ok(Parser_advance(value.p), PrintStatement(value.expr))
    ELSE LET message == ErrorAtLine(Parser_peek(value.p).line,
                                    "Expected ';' after value.")
         IN Err(push_error(value.p, message), message)

print_statement_end(value) ==
    IF value.panicked THEN Err(value.p, "")
    ELSE IF Parser_peek(value.p).type = "Semicolon"
    THEN Ok(Parser_advance(value.p), PrintStatement(value.expr))
    ELSE record_and_fail(value.p, "Expected ';' after value.")

print_statement(p) == print_statement_end(parse_rule("expression", p))

expression_statement_end(value) ==
    IF value.panicked THEN Err(value.p, "")
    ELSE IF Parser_peek(value.p).type = "Semicolon"
    THEN Ok(Parser_advance(value.p), ExpressionStatement(value.expr))
    ELSE record_and_fail(value.p, "Expected ';' after value.")

expression_statement(p) == expression_statement_end(parse_rule("expression", p))

if_else(condition, then_branch, else_branch) ==
    IF ~else_branch.ok THEN else_branch
    ELSE Ok(else_branch.p, IfStatement(condition, then_branch, else_branch.stmt))

if_then(condition, then_branch) ==
    CASE ~then_branch.ok -> then_branch
      [] then_branch.ok /\ Parser_peek(then_branch.p).type = "Else" ->
            if_else(condition, then_branch.stmt,
                    parse_rule("statement", Parser_advance(then_branch.p)))
      [] OTHER -> Ok(then_branch.p,
                     IfStatement(condition, then_branch.stmt, NoStatement))

if_condition(condition) ==
    IF condition.panicked THEN Err(condition.p, "")
    ELSE IF Parser_peek(condition.p).type = "RightParen"
    THEN if_then(condition.expr, parse_rule("statement", Parser_advance(condition.p)))
    ELSE record_and_fail(condition.p, "Expected ')' after if condition.")

if_statement(p) ==
    IF Parser_peek(p).type = "LeftParen"
    THEN if_condition(parse_rule("expression", Parser_advance(p)))
    ELSE record_and_fail(p, "Expected '(' after 'if'.")

statement(p) ==
    LET type == Parser_peek(p).type
    IN CASE type = "If" -> parse_rule("if_statement", Parser_advance(p))
         [] type = "Print" -> parse_rule("print_statement", Parser_advance(p))
         [] type = "While" -> parse_rule("while_statement", Parser_advance(p))
         [] type = "LeftBrace" -> parse_rule("block", Parser_advance(p))
         [] OTHER -> parse_rule("expression_statement", p)

declaration(p) ==
    IF Parser_peek(p).type = "Var" THEN parse_rule("var_declaration", Parser_advance(p))
    ELSE parse_rule("statement", p)

parse_rule(name, p) ==
    CASE name = "primary" -> primary(p)
      [] name = "unary" -> unary(p)
      [] name = "factor" -> factor_loop(parse_rule("unary", p))
      [] name = "term" -> term_loop(parse_rule("factor", p))
      [] name = "comparison" -> comparison_loop(parse_rule("term", p))
      [] name = "equality" -> equality_loop(parse_rule("comparison", p))
      [] name = "and" -> and_loop(parse_rule("equality", p))
      [] name = "or" -> or_loop(parse_rule("and", p))
      [] name = "assignment" -> assignment_target(parse_rule("or", p))
      [] name = "expression" -> parse_rule("assignment", p)
      [] name = "var_declaration" -> var_declaration(p)
      [] name = "while_statement" -> while_statement(p)
      [] name = "block" -> block(p)
      [] name = "print_statement" -> print_statement(p)
      [] name = "expression_statement" -> expression_statement(p)
      [] name = "if_statement" -> if_statement(p)
      [] name = "statement" -> statement(p)
      [] name = "declaration" -> declaration(p)

RECURSIVE synchronize_loop(_)
synchronize_loop(p) ==
    CASE Parser_peek(p).type = "None" -> p
      [] previous_overflows(p) -> panic(p)
      [] Parser_previous(p).type = "Semicolon" -> p
      [] Parser_peek(p).type \in {"Eof", "Class", "Fun", "Var", "For", "If", "While",
                                  "Print", "Return"} -> p
      [] Parser_advance(p).pc = "panicked" -> Parser_advance(p)
      [] OTHER -> synchronize_loop(Parser_advance(p))

\* A variant of synchronize without the advance before the loop.
synchronize_without_advance(p) == synchronize_loop(p)

synchronize(p) ==
    IF Parser_advance(p).pc = "panicked" THEN Parser_advance(p)
    ELSE synchronize_loop(Parser_advance(p))

\* One iteration of the loop of Parser::parse, entered with a token other
\* than Eof next.
parse_loop_body(p) ==
    LET result == parse_rule("declaration", p)
        q == result.p
    IN IF q.pc = "panicked" THEN panic(p)
       ELSE IF result.ok THEN [q EXCEPT !.statements = Append(@, result.stmt)]
       ELSE synchronize(push_error(q, result.message))

\* The Parser and the diagnostic list as one record, and back.
ParserWithErrors(pa, errs) ==
    [tokens |-> pa.tokens, current |-> pa.current, statements |-> pa.statements,
     pc |-> pa.pc, overflow_checks |-> pa.overflow_checks, errors |-> errs]

ParserOf(p) ==
    [tokens |-> p.tokens, current |-> p.current, statements |-> p.statements,
     pc |-> p.pc, overflow_checks |-> p.overflow_checks]

(***************************************************************************)
(* Values (src/src/vm.rs).  The arithmetic of f64 on the fractions of the  *)
(* model, with the infinities and NaN.                                     *)
(***************************************************************************)
f64_add(l, r) ==
    CASE l = NaN \/ r = NaN -> NaN
      [] l[2] = 0 /\ r[2] = 0 -> IF l = r THEN l ELSE NaN
      [] l[2] = 0 /\ r[2] # 0 -> l
      [] l[2] # 0 /\ r[2] = 0 -> r
      [] OTHER -> Rat(l[1] * r[2] + r[1] * l[2], l[2] * r[2])

f64_mul(l, r) ==
    CASE l = NaN \/ r = NaN -> NaN
      [] l[2] = 0 \/ r[2] = 0 ->
            IF l[1] * r[1] = 0 THEN NaN
            ELSE IF l[1] * r[1] > 0 THEN <<1, 0>> ELSE <<-1, 0>>
      [] OTHER -> Rat(l[1] * r[1], l[2] * r[2])

\* l < r; FALSE when either is NaN.
f64_lt(l, r) ==
    /\ l # NaN
    /\ r # NaN
    /\ IF l[2] = 0 /\ r[2] = 0 THEN l[1] < r[1] ELSE l[1] * r[2] < r[1] * l[2]

\* The first k digits after the decimal point of r / d, for 0 <= r < d,
\* without trailing zeros.
RECURSIVE FractionDigits(_, _, _)
FractionDigits(r, d, k) ==
    IF r = 0 \/ k = 0 THEN ""
    ELSE ToString((10 * r) \div d) \o FractionDigits((10 * r) % d, d, k - 1)

\* Display for f64: the shortest decimal that reads back as the same f64,
\* which for the fractions of the model is their decimal expansion.
f64_to_string(x) ==
    CASE x = NaN -> "NaN"
      [] x # NaN /\ x[2] = 0 -> IF x[1] > 0 THEN "inf" ELSE "-inf"
      [] OTHER ->
            (IF x[1] < 0 THEN "-" ELSE "") \o ToString(Abs(x[1]) \div x[2])
            \o (IF x[1] % x[2] = 0 THEN ""
                ELSE "." \o FractionDigits(Abs(x[1]) % x[2], x[2], 16))

\* Display for Value.
Display(value) ==
    CASE value.type = "Number" -> f64_to_string(value.number)
      [] value.type = "String" -> value.text
      [] value.type = "Boolean" -> IF value.bool THEN "true" ELSE "false"
      [] value.type = "Nil" -> "nil"

\* Result<Value, RuntimeError>.
NoError == [kind |-> "", message |-> ""]
ValueOk(value) == [ok |-> TRUE, value |-> value, error |-> NoError]
ValueErr(kind, message) ==
    [ok |-> FALSE, value |-> NilValue, error |-> [kind |-> kind, message |-> message]]

neg(self) ==
    IF self.type = "Number" THEN ValueOk(NumberValue(<<-self.number[1], self.number[2]>>))
    ELSE ValueErr("ArgumentError", "Expected number, but got " \o Display(self))

sub(self, other) ==
    CASE self.type = "Number" /\ other.type = "Number" ->
            ValueOk(NumberValue(f64_add(self.number,
                                        <<-other.number[1], other.number[2]>>)))
      [] self.type = "Number" /\ other.type # "Number" ->
            ValueErr("ArgumentError", "Expected number, but got " \o Display(other))
      [] OTHER ->
            ValueErr("ArgumentError", "Invalid operands for -: " \o Display(self)
                                      \o " and " \o Display(other))

\* A variant of div without the arm for a zero divisor: the division of two
\* Numbers always has a value, an infinity or NaN when the divisor is zero.
div_unchecked(self, other) ==
    CASE self.type = "Number" /\ other.type = "Number" ->
            ValueOk(NumberValue(
                    CASE other.number = NaN -> NaN
                      [] other.number = Whole(0) ->
                            IF self.number[1] = 0 THEN NaN
                            ELSE <<IF self.number[1] > 0 THEN 1 ELSE -1, 0>>
                      [] OTHER ->
                            f64_mul(self.number,
                                    IF other.number[2] = 0 THEN Whole(0)
                                    ELSE Rat(other.number[2], other.number[1]))))
      [] self.type = "Number" /\ other.type # "Number" ->
            ValueErr("ArgumentError", "Expected number, but got " \o Display(other))
      [] OTHER ->
            ValueErr("ArgumentError", "Invalid operands for /: " \o Display(self)
                                      \o " and " \o Display(other))

div(self, other) ==
    CASE self.type = "Number" /\ other.type = "Number" ->
            IF other.number = Whole(0)
            THEN ValueErr("ZeroDivision",
                          "Cannot divide " \o f64_to_string(self.number) \o " by zero")
            ELSE ValueOk(NumberValue(
                    IF other.number = NaN THEN NaN
                    ELSE f64_mul(self.number,
                                 IF other.number[2] = 0 THEN Whole(0)
                                 ELSE Rat(other.number[2], other.number[1]))))
      [] self.type = "Number" /\ other.type # "Number" ->
            ValueErr("ArgumentError", "Expected number, but got " \o Display(other))
      [] OTHER ->
            ValueErr("ArgumentError", "Invalid operands for /: " \o Display(self)
                                      \o " and " \o Display(other))

mul(self, other) ==
    CASE self.type = "Number" /\ other.type = "Number" ->
            ValueOk(NumberValue(f64_mul(self.number, other.number)))
      [] self.type = "Number" /\ other.type # "Number" ->
            ValueErr("ArgumentError", "Expected number, but got " \o Display(other))
      [] OTHER ->
            ValueErr("ArgumentError", "Invalid operands for *: " \o Display(self)
                                      \o " and " \o Display(other))

\* A variant of add that concatenates a String with the text of any other
\* value.
add_coercing(self, other) ==
    CASE self.type = "Number" /\ other.type = "Number" ->
            ValueOk(NumberValue(f64_add(self.number, other.number)))
      [] self.type = "String" ->
            ValueOk(StringValue(self.text \o Display(other)))
      [] self.type = "Number" /\ other.type # "Number" ->
            ValueErr("ArgumentError", "Expected number, but got " \o Display(other))
      [] OTHER ->
            ValueErr("ArgumentError", "Invalid operands for +: " \o Display(self)
                                      \o " and " \o Display(other))

add(self, other) ==
    CASE self.type = "Number" /\ other.type = "Number" ->
            ValueOk(NumberValue(f64_add(self.number, other.number)))
      [] self.type = "String" /\ other.type = "String" ->
            ValueOk(StringValue(self.text \o other.text))
      [] self.type = "String" /\ other.type # "String" ->
            ValueErr("ArgumentError", "Expected string, but got " \o Display(other))
      [] self.type = "Number" /\ other.type # "Number" ->
            ValueErr("ArgumentError", "Expected number, but got " \o Display(other))
      [] OTHER ->
            ValueErr("ArgumentError", "Invalid operands for +: " \o Display(self)
                                      \o " and " \o Display(other))

\* PartialEq for Value.
eq(self, other) ==
    /\ self.type = other.type
    /\ CASE self.type = "Number" -> self.number = other.number /\ self.number # NaN
         [] self.type = "String" -> self.text = other.text
         [] self.type = "Boolean" -> self.bool = other.bool
         [] self.type = "Nil" -> TRUE

\* A variant of partial_cmp that orders two equal values of any variant as
\* Equal.
partial_cmp_with_equality(self, other) ==
    CASE self.type = "Number" /\ other.type = "Number"
         /\ f64_lt(self.number, other.number) -> "Less"
      [] self.type = "Number" /\ other.type = "Number"
         /\ f64_lt(other.number, self.number) -> "Greater"
      [] eq(self, other) -> "Equal"
      [] OTHER -> "None"

\* PartialOrd for Value: Some(Less), Some(Equal), Some(Greater) or None.
partial_cmp(self, other) ==
    CASE self.type # "Number" \/ other.type # "Number" -> "None"
      [] self.type = "Number" /\ other.type = "Number"
         /\ f64_lt(self.number, other.number) -> "Less"
      [] self.type = "Number" /\ other.type = "Number"
         /\ f64_lt(other.number, self.number) -> "Greater"
      [] self.type = "Number" /\ other.type = "Number"
         /\ self.number = other.number /\ self.number # NaN -> "Equal"
      [] OTHER -> "None"

(***************************************************************************)
(* Environments (src/src/environment.rs).  Every Rc<RefCell<Environment>>  *)
(* is a cell of the sequence envs, an Env is the index of its cell, and 0  *)
(* is None.  A cell is allocated at the end of envs.                       *)
(***************************************************************************)
Environment_new(enclosing) == [values |-> <<>>, enclosing |-> enclosing]

\* A variant of define that declares the name in the enclosing environment
\* when there is one.
define_in_enclosing(envs, env, name, value) ==
    LET target == IF envs[env].enclosing # 0 THEN envs[env].enclosing ELSE env
    IN [envs EXCEPT ![target].values =
           [n \in DOMAIN @ \cup {name} |-> IF n = name THEN value ELSE @[n]]]

\* A variant of define that keeps the value of a name the environment
\* already binds, as HashMap's entry(name).or_insert(value) would.
define_keeping_first(envs, env, name, value) ==
    [envs EXCEPT ![env].values =
        [n \in DOMAIN @ \cup {name} |->
            IF n \in DOMAIN @ THEN @[n] ELSE value]]

define(envs, env, name, value) ==
    [envs EXCEPT ![env].values =
        [n \in DOMAIN @ \cup {name} |-> IF n = name THEN value ELSE @[n]]]

\* A variant of get that looks in the enclosing environments first.
RECURSIVE get_outermost(_, _, _)
get_outermost(envs, env, name) ==
    LET outer == IF envs[env].enclosing # 0
                 THEN get_outermost(envs, envs[env].enclosing, name)
                 ELSE ValueErr("UndefinedVariable", name \o " variable is not defined")
    IN IF outer.ok THEN outer
       ELSE IF name \in DOMAIN envs[env].values
       THEN ValueOk(envs[env].values[name])
       ELSE outer

RECURSIVE get(_, _, _)
get(envs, env, name) ==
    IF name \in DOMAIN envs[env].values THEN ValueOk(envs[env].values[name])
    ELSE IF envs[env].enclosing # 0 THEN get(envs, envs[env].enclosing, name)
    ELSE ValueErr("UndefinedVariable", name \o " variable is not defined")

\* A variant of assign that declares the name in the outermost environment
\* when no environment binds it.
RECURSIVE assign_or_define(_, _, _, _)
assign_or_define(envs, env, name, value) ==
    IF name \in DOMAIN envs[env].values \/ envs[env].enclosing = 0
    THEN [ok |-> TRUE, envs |-> define(envs, env, name, value), error |-> NoError]
    ELSE assign_or_define(envs, envs[env].enclosing, name, value)

\* Environment::assign: the cells after it, or the error.
RECURSIVE assign(_, _, _, _)
assign(envs, env, name, value) ==
    IF name \in DOMAIN envs[env].values
    THEN [ok |-> TRUE, envs |-> [envs EXCEPT ![env].values[name] = value],
          error |-> NoError]
    ELSE IF envs[env].enclosing # 0
         THEN assign(envs, envs[env].enclosing, name, value)
    ELSE [ok |-> FALSE, envs |-> envs,
          error |-> ValueErr("UndefinedVariable",
                             name \o " variable is not defined").error]

(***************************************************************************)
(* The evaluator (src/src/vm.rs).  The operators work on a record m        *)
(* holding the Vm (its current environment, with the cells), the lines     *)
(* written to standard output, the log of the finished execute_block      *)
(* calls, and the Ref and RefMut guards of the environment cells that are  *)
(* alive, each <<cell, mutable>>, in the order they were taken.  A visit   *)
(* yields [m, ok, value, error], ok = FALSE standing for   *)
(* Err(error); a node's value is nil.  m.pc = "looping" stands for a  *)
(* while loop that has not ended after MaxIterations iterations.           *)
(***************************************************************************)
Vm_new ==
    [environment |-> 1, envs |-> <<Environment_new(0)>>, stdout |-> <<>>,
     block_log |-> {}, borrows |-> <<>>, pc |-> "ready"]

Done(m, value) == [m |-> m, ok |-> TRUE, value |-> value, error |-> NoError]
Raise(m, error) == [m |-> m, ok |-> FALSE, value |-> NilValue, error |-> error]
Lift(m, result) ==
    [m |-> m, ok |-> result.ok, value |-> result.value, error |-> result.error]

\* A variant of truthy for which the Number 0 and the empty String are not
\* truthy either.
truthy_zero_and_empty_falsy(value) ==
    CASE value.type = "Nil" -> FALSE
      [] value.type = "Boolean" -> value.bool
      [] value.type = "Number" -> value.number # Whole(0)
      [] OTHER -> value.text # ""

truthy(value) ==
    CASE value.type = "Nil" -> FALSE
      [] value.type = "Boolean" -> value.bool
      [] OTHER -> TRUE

\* RefCell::borrow (mutable = FALSE) and RefCell::borrow_mut (mutable = TRUE)
\* on an environment cell: a panic when a guard of the cell that conflicts
\* is alive, the guard otherwise.
RefCell_borrow(m, cell, mutable) ==
    IF \E i \in 1..Len(m.borrows) :
          m.borrows[i][1] = cell /\ (mutable \/ m.borrows[i][2])
    THEN panic(m)
    ELSE [m EXCEPT !.borrows = Append(@, <<cell, mutable>>)]

\* The borrows of a read (mutable = FALSE) or an assignment (mutable = TRUE)
\* of name made on the cell env: the borrow of env by the caller, and those
\* of Environment::get or Environment::assign, which borrows the enclosing
\* cell when its own map does not hold the name and goes on in it.
RECURSIVE borrow_chain(_, _, _, _)
borrow_chain(m, env, name, mutable) ==
    LET borrowed == RefCell_borrow(m, env, mutable)
    IN IF borrowed.pc = "panicked" THEN borrowed
       ELSE IF name \in DOMAIN m.envs[env].values \/ m.envs[env].enclosing = 0
            THEN borrowed
       ELSE borrow_chain(borrowed, m.envs[env].enclosing, name, mutable)

RECURSIVE accept(_, _)
RECURSIVE visit_statement(_, _)
RECURSIVE try_for_each(_, _)
RECURSIVE while_loop(_, _, _)

visit_binary(m, binary) ==
    LET left == accept(m, binary.left)
        right == accept(left.m, binary.right)
        operator == binary.operator.type
        ordering == partial_cmp(left.value, right.value)
    IN CASE ~left.ok -> left
         [] left.ok /\ ~right.ok -> right
         [] OTHER ->
            CASE operator = "Minus" -> Lift(right.m, sub(left.value, right.value))
              [] operator = "Slash" -> Lift(right.m, div(left.value, right.value))
              [] operator = "Star" -> Lift(right.m, mul(left.value, right.value))
              [] operator = "Plus" -> Lift(right.m, add(left.value, right.value))
              [] operator = "Greater" ->
                    Done(right.m, BooleanValue(ordering = "Greater"))
              [] operator = "GreaterEqual" ->
                    Done(right.m, BooleanValue(ordering \in {"Greater", "Equal"}))
              [] operator = "Less" -> Done(right.m, BooleanValue(ordering = "Less"))
              [] operator = "LessEqual" ->
                    Done(right.m, BooleanValue(ordering \in {"Less", "Equal"}))
              [] operator = "BangEqual" ->
                    Done(right.m, BooleanValue(~eq(left.value, right.value)))
              [] operator = "EqualEqual" ->
                    Done(right.m, BooleanValue(eq(left.value, right.value)))
              [] OTHER ->
                    Raise(right.m, ValueErr("UnknownOperatorError",
                                            "Unknown binary operator: "
                                            \o operator).error)

\* The guards taken for the read are dropped at the end of the match.
visit_variable(m, variable) ==
    LET borrowed == borrow_chain(m, m.environment, variable.token.text, FALSE)
    IN IF borrowed.pc = "panicked" THEN Raise(borrowed, NoError)
       ELSE Lift(m, get(m.envs, m.environment, variable.token.text))

\* A variant of visit_assignment that borrows the current environment before
\* it evaluates the right-hand side, as
\* self.environment.borrow_mut().assign(name, assignment.value.accept(self)?)
\* would.
visit_assignment_borrowing_first(m, node) ==
    LET held == RefCell_borrow(m, m.environment, TRUE)
        value == accept(held, node.value)
        assigned == assign(value.m.envs, value.m.environment,
                           node.name.text, value.value)
    IN CASE held.pc = "panicked" -> Raise(held, NoError)
         [] held.pc # "panicked" /\ ~value.ok ->
                IF value.m.pc = "panicked" THEN value
                ELSE [value EXCEPT !.m.borrows = m.borrows]
         [] held.pc # "panicked" /\ value.ok /\ ~assigned.ok ->
                Raise([value.m EXCEPT !.borrows = m.borrows], assigned.error)
         [] OTHER ->
                Done([value.m EXCEPT !.envs = assigned.envs, !.borrows = m.borrows],
                     value.value)

\* The right-hand side is evaluated first; the guards taken for the
\* assignment are dropped at the end of its statement.
visit_assignment(m, node) ==
    LET value == accept(m, node.value)
        borrowed == borrow_chain(value.m, value.m.environment, node.name.text, TRUE)
        assigned == assign(value.m.envs, value.m.environment,
                           node.name.text, value.value)
    IN CASE ~value.ok -> value
         [] value.ok /\ borrowed.pc = "panicked" -> Raise(borrowed, NoError)
         [] value.ok /\ borrowed.pc # "panicked" /\ ~assigned.ok ->
                Raise(value.m, assigned.error)
         [] OTHER -> Done([value.m EXCEPT !.envs = assigned.envs], value.value)

visit_literal(m, literal) ==
    CASE literal.value.type = "String" -> Done(m, StringValue(literal.value.text))
      [] literal.value.type = "Number" -> Done(m, NumberValue(literal.value.number))
      [] literal.value.type = "Boolean" -> Done(m, BooleanValue(literal.value.bool))
      [] literal.value.type = "Nil" -> Done(m, NilValue)

\* A variant of visit_logical that evaluates both operands before it chooses.
visit_logical_eager(m, logical) ==
    LET left == accept(m, logical.left)
        right == accept(left.m, logical.right)
        decided == IF logical.operator.type = "Or" THEN truthy(left.value)
                   ELSE ~truthy(left.value)
    IN CASE ~left.ok -> left
         [] left.ok /\ ~right.ok -> right
         [] OTHER -> IF decided THEN [right EXCEPT !.value = left.value] ELSE right

visit_logical(m, logical) ==
    LET left == accept(m, logical.left)
    IN CASE ~left.ok -> left
         [] left.ok /\ logical.operator.type = "Or" ->
                IF truthy(left.value) THEN left ELSE accept(left.m, logical.right)
         [] OTHER ->
                IF ~truthy(left.value) THEN left ELSE accept(left.m, logical.right)

visit_unary(m, node) ==
    LET right == accept(m, node.right)
    IN CASE ~right.ok -> right
         [] right.ok /\ node.operator.type = "Minus" -> Lift(right.m, neg(right.value))
         [] right.ok /\ node.operator.type = "Bang" ->
                Done(right.m, BooleanValue(~truthy(right.value)))
         [] OTHER ->
                Raise(right.m, ValueErr("UnknownOperatorError",
                                        "Unknown unary operator: "
                                        \o node.operator.type).error)

\* Node::accept for Expr.
accept(m, expr) ==
    CASE expr.kind = "Binary" -> visit_binary(m, expr)
      [] expr.kind = "Grouping" -> accept(m, expr.expression)
      [] expr.kind = "Literal" -> visit_literal(m, expr)
      [] expr.kind = "Unary" -> visit_unary(m, expr)
      [] expr.kind = "Variable" -> visit_variable(m, expr)
      [] expr.kind = "Assignment" -> visit_assignment(m, expr)
      [] expr.kind = "Logical" -> visit_logical(m, expr)

\* A variant of try_for_each that behaves as Iterator::for_each would: it
\* executes every statement and reports the first error at the end.
RECURSIVE try_for_each_to_the_end(_, _)
try_for_each_to_the_end(m, statements) ==
    IF statements = <<>> THEN Done(m, NilValue)
    ELSE LET first == visit_statement(m, Head(statements))
             rest == try_for_each_to_the_end(first.m, Tail(statements))
         IN IF ~first.ok THEN [first EXCEPT !.m = rest.m] ELSE rest

\* Iterator::try_for_each over the statements of a block.
try_for_each(m, statements) ==
    IF statements = <<>> THEN Done(m, NilValue)
    ELSE LET first == visit_statement(m, Head(statements))
         IN IF ~first.ok THEN first ELSE try_for_each(first.m, Tail(statements))

\* A variant of execute_block that restores the environment only when the
\* block succeeds, as it would with the ? operator on the result.
execute_block_restoring_on_success(m, node) ==
    LET previous == m.environment
        inner == Len(m.envs) + 1
        result == try_for_each([m EXCEPT !.envs = Append(@, Environment_new(previous)),
                                         !.environment = inner],
                               node.statements)
        after == [result.m EXCEPT
                     !.environment = IF result.ok THEN previous ELSE @]
        freed == [after EXCEPT !.envs = SubSeq(@, 1, after.environment)]
    IN [result EXCEPT !.m =
           [freed EXCEPT !.block_log = @ \cup
               {[previous |-> previous, restored |-> freed.environment,
                 ok |-> result.ok,
                 names_before |-> [i \in 1..previous |-> DOMAIN m.envs[i].values],
                 names_after |-> [i \in 1..previous |-> DOMAIN freed.envs[i].values]]}]]

\* Vm::execute_block.  The cell of the inner environment is freed when the
\* last reference to it goes, which is when self.environment is set back;
\* the entry added to block_log records the call.
execute_block(m, node) ==
    LET previous == m.environment
        inner == Len(m.envs) + 1
        result == try_for_each([m EXCEPT !.envs = Append(@, Environment_new(previous)),
                                         !.environment = inner],
                               node.statements)
        after == [result.m EXCEPT !.environment = previous]
        freed == [after EXCEPT !.envs = SubSeq(@, 1, after.environment)]
    IN [result EXCEPT !.m =
           [freed EXCEPT !.block_log = @ \cup
               {[previous |-> previous, restored |-> freed.environment,
                 ok |-> result.ok,
                 names_before |-> [i \in 1..previous |-> DOMAIN m.envs[i].values],
                 names_after |-> [i \in 1..previous |-> DOMAIN freed.envs[i].values]]}]]

\* A variant of while_loop that tests the condition after the body, as a
\* do-while loop does.
RECURSIVE while_loop_body_first(_, _, _)
while_loop_body_first(m, while_stmt, left) ==
    LET body == visit_statement(m, while_stmt.body)
        condition == accept(body.m, while_stmt.condition)
    IN CASE ~body.ok -> body
         [] body.ok /\ ~condition.ok -> condition
         [] body.ok /\ condition.ok /\ ~truthy(condition.value) ->
                Done(condition.m, NilValue)
         [] body.ok /\ condition.ok /\ truthy(condition.value) /\ left = 0 ->
                Raise([condition.m EXCEPT !.pc = "looping"], NoError)
         [] OTHER -> while_loop_body_first(condition.m, while_stmt, left - 1)

\* The loop of Statement::While, with the iterations left to the bound.
while_loop(m, while_stmt, left) ==
    LET condition == accept(m, while_stmt.condition)
        body == visit_statement(condition.m, while_stmt.body)
    IN CASE ~condition.ok -> condition
         [] condition.ok /\ ~truthy(condition.value) -> Done(condition.m, NilValue)
         [] condition.ok /\ truthy(condition.value) /\ left = 0 ->
                Raise([condition.m EXCEPT !.pc = "looping"], NoError)
         [] condition.ok /\ truthy(condition.value) /\ left > 0 /\ ~body.ok -> body
         [] OTHER -> while_loop(body.m, while_stmt, left - 1)

\* A variant of visit_statement whose if statement evaluates its condition
\* a second time before it runs the branch.
visit_statement_testing_twice(m, node) ==
    CASE node.kind = "Expression" ->
            LET value == accept(m, node.expression)
            IN IF ~value.ok THEN value ELSE Done(value.m, NilValue)
      [] node.kind = "Print" ->
            LET value == accept(m, node.expression)
            IN IF ~value.ok THEN value
               ELSE Done([value.m EXCEPT !.stdout = Append(@, Display(value.value))],
                         NilValue)
      [] node.kind = "Variable" ->
            LET value == accept(m, node.value)
                borrowed == RefCell_borrow(value.m, value.m.environment, TRUE)
            IN IF ~value.ok THEN value
               ELSE IF borrowed.pc = "panicked" THEN Raise(borrowed, NoError)
               ELSE Done([value.m EXCEPT
                             !.envs = define(@, value.m.environment,
                                             node.name.text, value.value)],
                         NilValue)
      [] node.kind = "Block" -> execute_block(m, node)
      [] node.kind = "If" ->
            LET first == accept(m, node.condition)
                condition == IF first.ok THEN accept(first.m, node.condition) ELSE first
            IN CASE ~condition.ok -> condition
                 [] condition.ok /\ truthy(condition.value) ->
                        visit_statement(condition.m, node.then_branch)
                 [] condition.ok /\ ~truthy(condition.value)
                    /\ node.else_branch # NoStatement ->
                        visit_statement(condition.m, node.else_branch)
                 [] OTHER -> Done(condition.m, NilValue)
      [] node.kind = "While" -> while_loop(m, node, MaxIterations)

visit_statement(m, node) ==
    CASE node.kind = "Expression" ->
            LET value == accept(m, node.expression)
            IN IF ~value.ok THEN value ELSE Done(value.m, NilValue)
      [] node.kind = "Print" ->
            LET value == accept(m, node.expression)
            IN IF ~value.ok THEN value
               ELSE Done([value.m EXCEPT !.stdout = Append(@, Display(value.value))],
                         NilValue)
      [] node.kind = "Variable" ->
            LET value == accept(m, node.value)
                borrowed == RefCell_borrow(value.m, value.m.environment, TRUE)
            IN IF ~value.ok THEN value
               ELSE IF borrowed.pc = "panicked" THEN Raise(borrowed, NoError)
               ELSE Done([value.m EXCEPT
                             !.envs = define(@, value.m.environment,
                                             node.name.text, value.value)],
                         NilValue)
      [] node.kind = "Block" -> execute_block(m, node)
      [] node.kind = "If" ->
            LET condition == accept(m, node.condition)
            IN CASE ~condition.ok -> condition
                 [] condition.ok /\ truthy(condition.value) ->
                        visit_statement(condition.m, node.then_branch)
                 [] condition.ok /\ ~truthy(condition.value)
                    /\ node.else_branch # NoStatement ->
                        visit_statement(condition.m, node.else_branch)
                 [] OTHER -> Done(condition.m, NilValue)
      [] node.kind = "While" -> while_loop(m, node, MaxIterations)

(***************************************************************************)
(* The AST printer (src/src/visitor.rs) and the stages of main.rs that     *)
(* would read its text back.  A printed text is a sequence of characters,  *)
(* as the scanner takes it.                                                *)
(***************************************************************************)
\* str::chars: the characters of a text printed by the model.
chars(text) ==
    LET TextAlphabet == {"0", "1", "2", "3", "4", "5", "6", "7", "8", "9", ".",
                         "-", "a", "b", "f", "i", "n", "x", "y", "N"}
    IN CHOOSE cs \in [1..Len(text) -> TextAlphabet] : Str(cs) = text

\* Token::lexeme for the operator tokens.
lexeme(token) ==
    CASE token.type = "Minus" -> <<"-">> [] token.type = "Plus" -> <<"+">>
      [] token.type = "Slash" -> <<"/">> [] token.type = "Star" -> <<"*">>
      [] token.type = "Bang" -> <<"!">> [] token.type = "BangEqual" -> <<"!", "=">>
      [] token.type = "EqualEqual" -> <<"=", "=">>
      [] token.type = "Greater" -> <<">">>
      [] token.type = "GreaterEqual" -> <<">", "=">>
      [] token.type = "Less" -> <<"<">>
      [] token.type = "LessEqual" -> <<"<", "=">>

\* impl Visitor for AstPrinter: the text of an expression.
RECURSIVE AstPrinter_accept(_)
AstPrinter_accept(expr) ==
    CASE expr.kind = "Assignment" ->
            chars(expr.name.text) \o <<" ", "=", " ">> \o AstPrinter_accept(expr.value)
      [] expr.kind = "Binary" ->
            <<"(">> \o lexeme(expr.operator) \o <<" ">> \o AstPrinter_accept(expr.left)
            \o <<" ">> \o AstPrinter_accept(expr.right) \o <<")">>
      [] expr.kind = "Variable" -> chars(expr.token.text)
      [] expr.kind = "Grouping" ->
            <<"(", "g", "r", "o", "u", "p", " ">> \o AstPrinter_accept(expr.expression)
            \o <<")">>
      [] expr.kind = "Literal" ->
            (CASE expr.value.type = "String" -> chars(expr.value.text)
               [] expr.value.type = "Number" -> chars(f64_to_string(expr.value.number))
               [] expr.value.type = "Boolean" ->
                     IF expr.value.bool THEN <<"t", "r", "u", "e">>
                     ELSE <<"f", "a", "l", "s", "e">>
               [] expr.value.type = "Nil" -> <<"n", "i", "l">>)
      [] expr.kind = "Unary" ->
            <<"(">> \o lexeme(expr.operator) \o <<" ">> \o AstPrinter_accept(expr.right)
            \o <<")">>

\* impl StatementVisitor for AstPrinter: the text of a statement.
RECURSIVE AstPrinter_visit_statement(_)
AstPrinter_visit_statement(stmt) ==
    CASE stmt.kind = "Expression" -> AstPrinter_accept(stmt.expression)
      [] stmt.kind = "Print" ->
            <<"p", "r", "i", "n", "t", " ">> \o AstPrinter_accept(stmt.expression)
      [] stmt.kind = "Variable" ->
            chars(stmt.name.text) \o <<"=">> \o AstPrinter_accept(stmt.value)
      [] stmt.kind = "Block" ->
            LET result[k \in 0..Len(stmt.statements)] ==
                    IF k = 0 THEN <<"{">>
                    ELSE result[k - 1]
                         \o AstPrinter_visit_statement(stmt.statements[k])
                         \o <<";", "\n">>
            IN result[Len(stmt.statements)] \o <<"}">>

\* Scanner::scan from the state s on: the loop to its end and the push of
\* Eof, or the state in which an iteration changes nothing (pc "looping").
RECURSIVE Scanner_scan(_)
Scanner_scan(s) ==
    IF s.pc # "scanning" THEN s
    ELSE IF s.current >= ByteLen(s.source)
         THEN [s EXCEPT !.tokens = Append(@, Eof), !.pc = "done"]
    ELSE LET started == [s EXCEPT !.start = s.current]
             scanned == scan_token(started)
         IN IF scanned = started THEN [s EXCEPT !.pc = "looping"]
            ELSE Scanner_scan(scanned)

\* Parser::parse from the state p on: the loop to its end.
RECURSIVE Parser_parse(_)
Parser_parse(p) ==
    IF p.pc # "parsing" THEN p
    ELSE IF Parser_peek(p).type \in {"None", "Eof"} THEN [p EXCEPT !.pc = "done"]
    ELSE LET parsed == parse_loop_body(p)
         IN IF parsed = p THEN [p EXCEPT !.pc = "looping"]
            ELSE Parser_parse(parsed)

(***************************************************************************)
(* States of the structs that a specification does not use.                *)
(***************************************************************************)
ScannerIdle == [Scanner_new(<<>>) EXCEPT !.pc = "idle"]
ParserIdle == [Parser_new(<<>>, FALSE) EXCEPT !.pc = "idle"]
(***************************************************************************)
(* Scanner::scan as a state machine: one action for each iteration of its  *)
(* loop and one for the push of Eof after the loop.                        *)
(***************************************************************************)
ScanToken ==
    /\ scanner.pc = "scanning"
    /\ scanner.current < ByteLen(scanner.source)
    /\ LET s == scan_token([WithErrors(scanner, errors) EXCEPT !.start = scanner.current])
       IN /\ scanner' = ScannerOf(s)
          /\ errors' = s.errors
    /\ UNCHANGED <<parser, vm, driver>>

ScanEof ==
    /\ scanner.pc = "scanning"
    /\ scanner.current >= ByteLen(scanner.source)
    /\ scanner' = [scanner EXCEPT !.tokens = Append(@, Eof), !.pc = "done"]
    /\ UNCHANGED <<errors, parser, vm, driver>>

(***************************************************************************)
(* SpecScan: the scanner alone, as the tests of scanner.rs run it, on      *)
(* every source text of at most MaxSourceLen characters of ScanAlphabet    *)
(* (a digit, '.', '"', '/', a newline, a punctuator, a letter and a        *)
(* two-byte character that no token starts with) and on the longer source  *)
(* texts of ScanExamples.                                                  *)
(***************************************************************************)
InitScan ==
    /\ LET ScanAlphabet == {"1", ".", "\"", "/", "\n", "+", "a", "§"}
           \* 1.1+"
           ScanExamples == {<<"1", ".", "1", "+", "\"">>}
           ScanSources ==
               UNION {[1..n -> ScanAlphabet] : n \in 0..MaxSourceLen}
                   \cup ScanExamples
       IN scanner \in {Scanner_new(source) : source \in ScanSources}
    /\ errors = <<>>
    /\ parser = ParserIdle
    /\ vm = [Vm_new EXCEPT !.pc = "idle"]
    /\ driver = [pc |-> "idle"]

NextScan == ScanToken \/ ScanEof

SpecScan == InitScan /\ [][NextScan]_vars

(***************************************************************************)
(* Parser::parse as a state machine: one action for each iteration of its  *)
(* loop that calls declaration (with the recording of the error and        *)
(* synchronize when it fails), and one for the iteration that finds Eof    *)
(* (or no token) and returns the statements.                               *)
(***************************************************************************)
ParseDeclaration ==
    /\ parser.pc = "parsing"
    /\ Parser_peek(parser).type \notin {"None", "Eof"}
    /\ LET p == parse_loop_body(ParserWithErrors(parser, errors))
       IN /\ parser' = ParserOf(p)
          /\ errors' = p.errors
    /\ UNCHANGED <<scanner, vm, driver>>

ParseEof ==
    /\ parser.pc = "parsing"
    /\ Parser_peek(parser).type \in {"None", "Eof"}
    /\ parser' = [parser EXCEPT !.pc = "done"]
    /\ UNCHANGED <<scanner, errors, vm, driver>>

(***************************************************************************)
(* SpecParse: the parser alone, as the tests of parser.rs run it, on every *)
(* list of at most MaxTokens tokens of ParseAlphabet, at most              *)
(* MaxLeftParens of them '(', followed by Eof, and on the longer token     *)
(* lists of ParseExamples.  The i-th token is on line i, so that a         *)
(* diagnostic shows which token its line was taken from.                   *)
(***************************************************************************)
InitParse ==
    /\ LET ParseAlphabet ==
               {Token("Print", 0), NumberToken(0, Whole(1)), Token("Semicolon", 0),
                IdentifierToken(0, "x"), Token("Equal", 0), Token("Var", 0),
                Token("LeftParen", 0), Token("RightParen", 0), Token("LeftBrace", 0),
                Token("RightBrace", 0), Token("If", 0), Token("While", 0),
                StringToken(0, "y"), Token("Minus", 0)}

           \* The tokens ts, the i-th on line i, followed by Eof.
           Numbered(ts) ==
               [i \in 1..(Len(ts) + 1) |->
                   IF i <= Len(ts) THEN [ts[i] EXCEPT !.line = i] ELSE Eof]

           ParseExamples ==
               LET x == IdentifierToken(0, "x")
                   one == NumberToken(0, Whole(1))
                   t(type) == Token(type, 0)
               IN {<<t("If"), t("LeftParen"), x, t("RightParen"), t("Print"), one,
                     t("Semicolon"), t("Else"), x, t("Equal"), one, t("Semicolon")>>,
                   <<t("While"), t("LeftParen"), x, t("Less"), one, t("RightParen"),
                     t("LeftBrace"), x, t("Equal"), x, t("Plus"), one, t("Semicolon"),
                     t("RightBrace")>>,
                   <<t("Var"), x, t("Equal"), one, t("Semicolon"), t("LeftBrace"),
                     t("Var"), x, t("Equal"), one, t("RightBrace"), t("Print"), x,
                     t("Semicolon")>>,
                   <<t("If"), t("LeftParen"), x, t("RightParen"), t("Print"), one,
                     t("Else"), t("Print"), x, t("Semicolon")>>,
                   <<t("Print"), t("LeftParen"), one, t("Semicolon"), x, t("Equal"),
                     one, t("Semicolon")>>,
                   \* x - 1 - x;
                   <<x, t("Minus"), one, t("Minus"), x, t("Semicolon")>>,
                   \* print 1 + 2 * 3;
                   <<t("Print"), one, t("Plus"), NumberToken(0, Whole(2)), t("Star"),
                     NumberToken(0, Whole(3)), t("Semicolon")>>,
                   \* ! - ! x;
                   <<t("Bang"), t("Minus"), t("Bang"), x, t("Semicolon")>>,
                   \* x = x or x and x == 1 < 1 + 1 * - x or x;
                   <<x, t("Equal"), x, t("Or"), x, t("And"), x, t("EqualEqual"), one,
                     t("Less"), one, t("Plus"), one, t("Star"), t("Minus"), x,
                     t("Or"), x, t("Semicolon")>>,
                   \* x * 1 + x / 1 >= x != (x = 1) and x;
                   <<x, t("Star"), one, t("Plus"), x, t("Slash"), one,
                     t("GreaterEqual"), x, t("BangEqual"), t("LeftParen"), x,
                     t("Equal"), one, t("RightParen"), t("And"), x, t("Semicolon")>>}

           \* The number of '(' tokens of ts.
           LeftParens(ts) == Cardinality({i \in DOMAIN ts : ts[i].type = "LeftParen"})

           ParseInputs ==
               {ts \in UNION {[1..n -> ParseAlphabet] : n \in 0..MaxTokens} :
                   LeftParens(ts) <= MaxLeftParens}
               \cup ParseExamples
       IN parser \in {Parser_new(Numbered(ts), oc) :
                        ts \in ParseInputs, oc \in BOOLEAN}
    /\ errors = <<>>
    /\ scanner = ScannerIdle
    /\ vm = [Vm_new EXCEPT !.pc = "idle"]
    /\ driver = [pc |-> "idle"]

NextParse == ParseDeclaration \/ ParseEof

SpecParse == InitParse /\ [][NextParse]_vars
(***************************************************************************)
(* The evaluator as a state machine: a Vm made by Vm::new is handed        *)
(* statements one after the other, as the loop of run hands it the         *)
(* statements of a program, and goes on after an error as a caller that    *)
(* keeps the Vm does.  The driver keeps the statement handed over and the  *)
(* result of the call; stdout and block_log are those of the last call.    *)
(***************************************************************************)
Name(text) == IdentifierToken(1, text)
Number(n) == Literal(NumberValue(Whole(n)))

\* The statements given to the Vm: simple ones, the blocks of up to
\* MaxBlockLen statements, and examples with a loop, a conditional and a
\* failure three blocks deep.
EvalStatements ==
    LET \* var a = 1;  var b = a;  a = 3;  print a;  print b;
        SimpleStatements ==
            {VariableStatement(Name("a"), Number(1)),
             VariableStatement(Name("b"), Variable(Name("a"))),
             ExpressionStatement(Assignment(Name("a"), Number(3))),
             PrintStatement(Variable(Name("a"))),
             PrintStatement(Variable(Name("b")))}

        \* var a = 2;  a = 4;  print a;  print b;
        InnerStatements ==
            {VariableStatement(Name("a"), Number(2)),
             ExpressionStatement(Assignment(Name("a"), Number(4))),
             PrintStatement(Variable(Name("a"))),
             PrintStatement(Variable(Name("b")))}

        \* { a = 4; }  and  { print b; }
        InnerBlocks ==
            {BlockStatement(<<ExpressionStatement(Assignment(Name("a"), Number(4)))>>),
             BlockStatement(<<PrintStatement(Variable(Name("b")))>>)}

        \* The blocks of up to MaxBlockLen statements, each of them one of
        \* InnerStatements or one of InnerBlocks.
        Blocks ==
            {BlockStatement(statements) :
                statements \in UNION {[1..n -> InnerStatements \cup InnerBlocks] :
                                         n \in 1..MaxBlockLen}}

        \* while (a < 4) { a = a + 1; }
        \* if (a == 1) { var b = 3; a = b; } else a = -nil;
        \* { var b = 3; { var a = 3; { b = a; print c; } } }
        EvalExamples ==
            {WhileStatement(Binary(Variable(Name("a")), Token("Less", 1), Number(4)),
                BlockStatement(<<ExpressionStatement(Assignment(Name("a"),
                    Binary(Variable(Name("a")), Token("Plus", 1), Number(1))))>>)),
             IfStatement(Binary(Variable(Name("a")), Token("EqualEqual", 1), Number(1)),
                BlockStatement(<<VariableStatement(Name("b"), Number(3)),
                                 ExpressionStatement(Assignment(Name("a"),
                                                                Variable(Name("b"))))>>),
                ExpressionStatement(Assignment(Name("a"),
                    Unary(Token("Minus", 1), Literal(NilValue))))),
             BlockStatement(<<VariableStatement(Name("b"), Number(3)),
                BlockStatement(<<VariableStatement(Name("a"), Number(3)),
                    BlockStatement(<<ExpressionStatement(Assignment(Name("b"),
                                                                    Variable(Name("a")))),
                                     PrintStatement(Variable(Name("c")))>>)>>)>>),
             \* var n = 0;
             VariableStatement(Name("n"), Number(0)),
             \* while (n < 3) { n = n + 1; print n; }
             WhileStatement(Binary(Variable(Name("n")), Token("Less", 1), Number(3)),
                BlockStatement(<<ExpressionStatement(Assignment(Name("n"),
                    Binary(Variable(Name("n")), Token("Plus", 1), Number(1)))),
                                 PrintStatement(Variable(Name("n")))>>)),
             \* while ((a = a + 1) < 4) b = b + 1;
             WhileStatement(
                Binary(Grouping(Assignment(Name("a"),
                           Binary(Variable(Name("a")), Token("Plus", 1), Number(1)))),
                       Token("Less", 1), Number(4)),
                ExpressionStatement(Assignment(Name("b"),
                    Binary(Variable(Name("b")), Token("Plus", 1), Number(1))))),
             \* if ((a = a + 1) > 2) print a;
             IfStatement(
                Binary(Grouping(Assignment(Name("a"),
                           Binary(Variable(Name("a")), Token("Plus", 1), Number(1)))),
                       Token("Greater", 1), Number(2)),
                PrintStatement(Variable(Name("a"))),
                NoStatement)}
    IN SimpleStatements \cup Blocks \cup EvalExamples

Execute(stmt) ==
    /\ vm.pc = "ready"
    /\ driver.pc = "executing"
    /\ driver.executed < MaxStatements
    /\ LET result == visit_statement([vm EXCEPT !.stdout = <<>>, !.block_log = {}],
                                     stmt)
       IN /\ vm' = result.m
          /\ driver' = [driver EXCEPT !.executed = @ + 1,
                                      !.statement = stmt,
                                      !.ok = result.ok,
                                      !.error = result.error]
    /\ UNCHANGED <<scanner, errors, parser>>

InitEval ==
    /\ vm = Vm_new
    /\ driver = [pc |-> "executing", executed |-> 0, statement |-> NoStatement,
                 ok |-> TRUE, error |-> NoError]
    /\ scanner = ScannerIdle
    /\ parser = ParserIdle
    /\ errors = <<>>

NextEval == \E stmt \in EvalStatements : Execute(stmt)

SpecEval == InitEval /\ [][NextEval]_vars

(***************************************************************************)
(* The environment chain as a state machine: starting from the Vm made by  *)
(* Vm::new, the current environment gets a new inner environment as on the *)
(* entry of a block (vm.rs 197-199) or gives way to the enclosing one as   *)
(* on its end (vm.rs 205), a name is declared, read or assigned by the     *)
(* visit of the Vm.  The driver keeps the last call and its result.        *)
(***************************************************************************)
EnvNames == {"a", "b"}

\* 1,  2,  b = 1  and  (b = 1) + nil
EnvValues ==
    {Number(1), Number(2), Assignment(Name("b"), Number(1)),
     Binary(Grouping(Assignment(Name("b"), Number(1))), Token("Plus", 1),
            Literal(NilValue))}

Called(op, name, result) ==
    [pc |-> "calling", op |-> op, name |-> name, ok |-> result.ok,
     value |-> result.value, error |-> result.error]

EnvNest ==
    /\ vm.pc = "ready"
    /\ driver.pc = "calling"
    /\ Len(vm.envs) < MaxScopes
    /\ vm' = [vm EXCEPT !.envs = Append(@, Environment_new(vm.environment)),
                        !.environment = Len(vm.envs) + 1]
    /\ driver' = Called("new", "", Done(vm, NilValue))
    /\ UNCHANGED <<scanner, errors, parser>>

\* The end of a block (vm.rs 205): the enclosing environment is the current
\* one again and the cell of the inner one is freed.
EnvLeave ==
    /\ vm.pc = "ready"
    /\ driver.pc = "calling"
    /\ vm.environment > 1
    /\ vm' = [vm EXCEPT !.envs = SubSeq(@, 1, vm.envs[vm.environment].enclosing),
                        !.environment = vm.envs[vm.environment].enclosing]
    /\ driver' = Called("end", "", Done(vm, NilValue))
    /\ UNCHANGED <<scanner, errors, parser>>

EnvDefine(name, value) ==
    /\ vm.pc = "ready"
    /\ driver.pc = "calling"
    /\ LET result == visit_statement(vm, VariableStatement(Name(name), value))
       IN /\ vm' = result.m
          /\ driver' = Called("define", name, result)
    /\ UNCHANGED <<scanner, errors, parser>>

EnvGet(name) ==
    /\ vm.pc = "ready"
    /\ driver.pc = "calling"
    /\ LET result == visit_variable(vm, Variable(Name(name)))
       IN /\ vm' = result.m
          /\ driver' = Called("get", name, result)
    /\ UNCHANGED <<scanner, errors, parser>>

EnvAssign(name, value) ==
    /\ vm.pc = "ready"
    /\ driver.pc = "calling"
    /\ LET result == visit_assignment(vm, Assignment(Name(name), value))
       IN /\ vm' = result.m
          /\ driver' = Called("assign", name, result)
    /\ UNCHANGED <<scanner, errors, parser>>

InitEnv ==
    /\ vm = Vm_new
    /\ driver = Called("", "", Done(vm, NilValue))
    /\ scanner = ScannerIdle
    /\ parser = ParserIdle
    /\ errors = <<>>

NextEnv ==
    \/ EnvNest
    \/ EnvLeave
    \/ \E name \in EnvNames, value \in EnvValues : EnvDefine(name, value)
    \/ \E name \in EnvNames : EnvGet(name)
    \/ \E name \in EnvNames, value \in EnvValues : EnvAssign(name, value)

SpecEnv == InitEnv /\ [][NextEnv]_vars

(***************************************************************************)
(* The visit of an expression as a state machine: the Vm is the one left   *)
(* by `var a = 1;` in the global environment, and each step hands it one   *)
(* expression, as Expr::accept does for the expression of a statement      *)
(* (ast.rs 48-59).  The driver keeps the expression and the result of the  *)
(* visit.                                                                  *)
(***************************************************************************)
AcceptExpr(expr) ==
    /\ vm.pc = "ready"
    /\ driver.pc = "visiting"
    /\ LET result == accept(vm, expr)
       IN /\ vm' = result.m
          /\ driver' = [pc |-> "visiting", expr |-> expr, ok |-> result.ok,
                        value |-> result.value, error |-> result.error]
    /\ UNCHANGED <<scanner, errors, parser>>

InitExpr ==
    /\ vm = visit_statement(Vm_new, VariableStatement(Name("a"), Number(1))).m
    /\ driver = [pc |-> "visiting", expr |-> Literal(NilValue), ok |-> TRUE,
                 value |-> NilValue, error |-> NoError]
    /\ scanner = ScannerIdle
    /\ parser = ParserIdle
    /\ errors = <<>>

\* The expressions visited: 15, 5, "x", "y", true, false and nil, the
\* arithmetic and the logical operators between two of them, logical
\* operators whose operands assign to a or read the undeclared b, division
\* and the comparisons between two of them or 0, and the unary operators on
\* each of them, on 0 and on the empty string.
NextExpr ==
    LET Literals ==
            {Number(15), Number(5), Literal(StringValue("x")),
             Literal(StringValue("y")), Literal(BooleanValue(TRUE)),
             Literal(BooleanValue(FALSE)), Literal(NilValue)}
        Lefts ==
            Literals \cup {Variable(Name("b")),
                           Assignment(Name("a"), Literal(BooleanValue(FALSE)))}
        Rights ==
            Literals \cup {Variable(Name("b")), Assignment(Name("a"), Number(5))}
        WithZero == Literals \cup {Number(0)}
        Expressions ==
            {Binary(l, Token(op, 1), r) :
                l \in Literals, op \in {"Plus", "Minus", "Star"}, r \in Literals}
            \cup {Logical(l, Token(op, 1), r) :
                    l \in Lefts, op \in {"Or", "And"}, r \in Rights}
            \cup {Binary(l, Token(op, 1), r) :
                    l \in WithZero,
                    op \in {"Slash", "Less", "LessEqual", "Greater", "GreaterEqual"},
                    r \in WithZero}
            \cup {Unary(Token(op, 1), r) :
                    op \in {"Bang", "Minus"},
                    r \in WithZero \cup {Literal(StringValue(""))}}
    IN \E expr \in Expressions : AcceptExpr(expr)

SpecExpr == InitExpr /\ [][NextExpr]_vars

(***************************************************************************)
(* The driver (src/src/main.rs): run_file and run_interactively, with run, *)
(* scan and parse.  The driver record holds the place the process is at    *)
(* (pc: "prompt" before read_line or read_to_string, "scan" and "parse"    *)
(* during the calls of run, "evaluate" in the loop over the statements,    *)
(* "returned" once run has returned), the lines the process has yet to     *)
(* read, the lines written to standard error, and the exit of the process. *)
(* The lines println! writes in the evaluator are vm.stdout; the prompt    *)
(* and the dumps of --print-tokens and --print-ast are not kept.           *)
(***************************************************************************)
\* str::trim on a sequence of characters.
RECURSIVE trim(_)
trim(cs) ==
    CASE cs = <<>> -> cs
      [] cs # <<>> /\ Head(cs) \in {" ", "\t", "\r", "\n"} -> trim(Tail(cs))
      [] cs # <<>> /\ cs[Len(cs)] \in {" ", "\t", "\r", "\n"} ->
            trim(SubSeq(cs, 1, Len(cs) - 1))
      [] OTHER -> cs

\* A variant of is_empty that finds every list empty.
is_empty_always(list) == TRUE

\* Vec::is_empty on the diagnostic list.
is_empty(list) == list = <<>>

\* std::process::exit(code), and the abort of a panic.
exit(d, code) == [d EXCEPT !.exited = TRUE, !.exit_code = code]

\* eprintln! of one line for each error.
eprintln(d, prefix, list) ==
    [d EXCEPT !.stderr = @ \o [i \in 1..Len(list) |-> prefix \o list[i]]]

\* var x = "hi"; print x + " there";
HiThereSource ==
    <<"v", "a", "r", " ", "x", " ", "=", " ", "\"", "h", "i", "\"", ";",
      " ", "p", "r", "i", "n", "t", " ", "x", " ", "+", " ", "\"", " ", "t",
      "h", "e", "r", "e", "\"", ";">>

\* a = 2; 1 = 2;\n
InvalidTargetSource ==
    <<"a", " ", "=", " ", "2", ";", " ", "1", " ", "=", " ", "2", ";",
      "\n">>

\* The file contents and input lines of the model.
Sources ==
    LET \* var a = 1; { var a = 2; print a; } print a;
        ShadowingSource ==
            <<"v", "a", "r", " ", "a", " ", "=", " ", "1", ";", " ", "{", " ", "v",
              "a", "r", " ", "a", " ", "=", " ", "2", ";", " ", "p", "r", "i", "n",
              "t", " ", "a", ";", " ", "}", " ", "p", "r", "i", "n", "t", " ", "a",
              ";">>

        \* var a = 1;\n
        DeclareASource ==
            <<"v", "a", "r", " ", "a", " ", "=", " ", "1", ";", "\n">>

        \* print a;\n
        PrintASource ==
            <<"p", "r", "i", "n", "t", " ", "a", ";", "\n">>

        \* print b;\n
        PrintBSource ==
            <<"p", "r", "i", "n", "t", " ", "b", ";", "\n">>

        \* a = 3; §\n
        UnexpectedCharSource ==
            <<"a", " ", "=", " ", "3", ";", " ", "§", "\n">>

        \*  quit\n
        QuitSource ==
            <<" ", "q", "u", "i", "t", "\n">>

        \* )
        RightParenSource == <<")">>

        \* var a = 1; { print a; a = 2; print b; print a; } print a;
        FailingBlockSource ==
            <<"v", "a", "r", " ", "a", " ", "=", " ", "1", ";", " ", "{", " ", "p",
              "r", "i", "n", "t", " ", "a", ";", " ", "a", " ", "=", " ", "2", ";",
              " ", "p", "r", "i", "n", "t", " ", "b", ";", " ", "p", "r", "i", "n",
              "t", " ", "a", ";", " ", "}", " ", "p", "r", "i", "n", "t", " ", "a",
              ";">>
    IN {HiThereSource, ShadowingSource, DeclareASource, PrintASource,
        PrintBSource, InvalidTargetSource, UnexpectedCharSource, QuitSource,
        RightParenSource, FailingBlockSource}

\* run_file up to the call of run, and an iteration of the loop of
\* run_interactively up to the call of run; run begins with the call of scan,
\* which makes the Scanner.
ReadInput ==
    /\ driver.pc = "prompt"
    /\ ~driver.exited
    /\ IF driver.input = <<>>
       THEN /\ driver' = exit(IF driver.mode = "file"
                              THEN eprintln(driver, "Error reading file", <<"">>)
                              ELSE driver,
                              IF driver.mode = "file" THEN 1 ELSE 0)
            /\ UNCHANGED <<scanner, errors, parser>>
       ELSE IF driver.mode = "repl"
               /\ Str(trim(Head(driver.input))) \in {"exit", "quit"}
       THEN /\ driver' = exit([driver EXCEPT !.input = Tail(@)], 0)
            /\ UNCHANGED <<scanner, errors, parser>>
       ELSE /\ driver' = [driver EXCEPT !.input = Tail(@), !.pc = "scan",
                                        !.code = Head(driver.input),
                                        !.statements = <<>>]
            /\ scanner' = Scanner_new(Head(driver.input))
            /\ errors' = <<>>
            /\ parser' = ParserIdle
    /\ UNCHANGED vm

\* scan after scanner.scan(), and run up to the call of parse, which makes
\* the Parser.
AfterScan ==
    /\ driver.pc = "scan"
    /\ ~driver.exited
    /\ scanner.pc = "done"
    /\ IF ~is_empty(errors)
       THEN /\ driver' = exit(eprintln(driver, "Scanning error: ", errors), 1)
            /\ UNCHANGED parser
       ELSE IF driver.arg = "--print-tokens"
       THEN /\ driver' = [driver EXCEPT !.pc = "returned"]
            /\ UNCHANGED parser
       ELSE /\ driver' = [driver EXCEPT !.pc = "parse"]
            /\ parser' = Parser_new(scanner.tokens, driver.overflow_checks)
    /\ UNCHANGED <<scanner, errors, vm>>

\* parse after parser.parse(), and run up to the loop over the statements.
AfterParse ==
    /\ driver.pc = "parse"
    /\ ~driver.exited
    /\ parser.pc = "done"
    /\ IF ~is_empty(errors)
       THEN driver' = exit(eprintln(driver, "Parse error: ", errors), 1)
       ELSE IF driver.arg = "--print-ast"
       THEN driver' = [driver EXCEPT !.pc = "returned"]
       ELSE driver' = [driver EXCEPT !.pc = "evaluate",
                                     !.statements = parser.statements]
    /\ UNCHANGED <<scanner, errors, parser, vm>>

\* One iteration of the loop of run over the statements, or its end.
Evaluate ==
    /\ driver.pc = "evaluate"
    /\ ~driver.exited
    /\ vm.pc = "ready"
    /\ LET result == visit_statement(vm, Head(driver.statements))
       IN IF driver.statements = <<>>
          THEN /\ vm' = vm
               /\ driver' = [driver EXCEPT !.pc = "returned"]
          ELSE IF result.ok
          THEN /\ vm' = result.m
               /\ driver' = [driver EXCEPT !.statements = Tail(@)]
          ELSE /\ vm' = result.m
               /\ driver' =
                    IF result.m.pc = "looping" THEN driver
                    ELSE exit(eprintln(driver, "Runtime error: ",
                                       <<result.error.message>>), 1)
    /\ UNCHANGED <<scanner, errors, parser>>

\* The return of run: to the loop of run_interactively, or to run_file and
\* main, which return.
Return ==
    /\ driver.pc = "returned"
    /\ ~driver.exited
    /\ driver' = IF driver.mode = "repl" THEN [driver EXCEPT !.pc = "prompt"]
                 ELSE exit(driver, 0)
    /\ UNCHANGED <<scanner, errors, parser, vm>>

\* A panic in scanner.scan() or parser.parse() ends the process.
Abort ==
    /\ ~driver.exited
    /\ \/ driver.pc = "scan" /\ scanner.pc = "panicked"
       \/ driver.pc = "parse" /\ parser.pc = "panicked"
    /\ driver' = exit(driver, 101)
    /\ UNCHANGED <<scanner, errors, parser, vm>>

\* The state after Vm::new() in run_file or run_interactively: the process
\* was started with a path or without one, with arg the option given to run
\* and input the contents of the file (none when it cannot be read) or the
\* lines that standard input gives.
InitRun ==
    /\ driver \in
         {[pc |-> "prompt", mode |-> mode, arg |-> arg, input |-> input,
           overflow_checks |-> oc, code |-> <<>>, statements |-> <<>>,
           stderr |-> <<>>, exited |-> FALSE, exit_code |-> 0] :
            mode \in {"file", "repl"},
            arg \in {"", "--print-tokens", "--print-ast"},
            oc \in BOOLEAN,
            input \in UNION {[1..n -> Sources] : n \in 0..MaxLines}}
    /\ driver.mode = "file" => driver.arg = "" /\ Len(driver.input) <= 1
    /\ vm = Vm_new
    /\ scanner = ScannerIdle
    /\ parser = ParserIdle
    /\ errors = <<>>

NextRun ==
    \/ ReadInput
    \/ ScanToken
    \/ ScanEof
    \/ AfterScan
    \/ ParseDeclaration
    \/ ParseEof
    \/ AfterParse
    \/ Evaluate
    \/ Return
    \/ Abort

SpecRun == InitRun /\ [][NextRun]_vars


\* The loop of scan() cannot end: an iteration leaves the Scanner as it
\* is, with current still below the length of the source.
ScanLoopsForever ==
    /\ scanner.pc = "scanning"
    /\ scanner.current < ByteLen(scanner.source)
    /\ ScannerOf(scan_token([WithErrors(scanner, errors) EXCEPT !.start = scanner.current])) = scanner

\* C1: for every source, scan terminates, never aborts (panics), and leaves
\* a token list whose last token is Eof and that holds no other Eof.
C1_ScanEndsWithOneEof ==
    /\ scanner.pc # "panicked"
    /\ ~ScanLoopsForever
    /\ scanner.pc = "done" =>
          /\ scanner.tokens # <<>>
          /\ \A i \in 1..Len(scanner.tokens) :
                (scanner.tokens[i].type = "Eof") = (i = Len(scanner.tokens))

(***************************************************************************)
(* Parser::parse never aborts.                                             *)
(***************************************************************************)
\* C3: for every token list that ends with a single Eof, parse never aborts
\* (panics), whatever the first or any later token is, and it stops only
\* with Eof as the next token.
C3_ParseNeverAborts ==
    /\ parser.pc # "panicked"
    /\ parser.pc = "done" => Parser_peek(parser).type = "Eof"

(***************************************************************************)
(* The diagnostics of a failed declaration.                                *)
(***************************************************************************)
\* The messages the statement parser records itself before it returns them
\* as its error, and those it only returns.
RecordedByStatement ==
    {"Expected ';' after value.", "Expected '(' after 'if'.",
     "Expected ')' after if condition.", "Expected '(' after 'while'.",
     "Expected ')' after while condition."}

ReturnedOnly ==
    {"Expected ';' after variable declaration.",
     "Expected '}' after block, but found EOF"}

\* A step of parse whose declaration failed without a panic.
DeclarationFails ==
    /\ ParseDeclaration
    /\ parser'.pc = "parsing"
    /\ parser'.statements = parser.statements

\* The last diagnostic of the step is one of texts, on some line.
LastDiagnosticIn(texts) ==
    /\ errors' # <<>>
    /\ \E line \in 0..Len(parser.tokens), text \in texts :
          errors'[Len(errors')] = ErrorAtLine(line, text)

\* How many of the diagnostics the step added equal its last one.
CopiesOfLastDiagnostic ==
    Cardinality({i \in (Len(errors) + 1)..Len(errors') :
                    errors'[i] = errors'[Len(errors')]})

\* C4 as the spec states it: a declaration that fails for a missing ';',
\* a missing '(' or ')' of if/while or a missing '}' adds its message to
\* the diagnostic list exactly once.
C4_OneDiagnosticPerMissingToken ==
    [][DeclarationFails /\ LastDiagnosticIn(RecordedByStatement \cup ReturnedOnly)
          => CopiesOfLastDiagnostic = 1]_vars

\* C4 as the code has it: a missing ';' after a print or expression
\* statement and a missing '(' or ')' of if/while add the same string twice
\* (print_statement, expression_statement, if_statement and while_statement
\* record the message and return it, and parse records it again); a missing
\* ';' after a variable declaration and a missing '}' add it once.  The
\* step adds nothing and panics instead when the message is to be built
\* before any token has been consumed.
C4_DiagnosticsPerMissingToken ==
    [][ParseDeclaration =>
          /\ parser'.pc = "panicked" => parser.current = 0 /\ errors' = errors
          /\ DeclarationFails /\ LastDiagnosticIn(RecordedByStatement)
                => CopiesOfLastDiagnostic = 2
          /\ DeclarationFails /\ LastDiagnosticIn(ReturnedOnly)
                => CopiesOfLastDiagnostic = 1]_vars

\* print 1 <Eof>: the message of the missing ';' is in the list twice.
C4_MissingSemicolonRecordedTwice ==
    /\ parser.pc = "done"
    /\ Len(parser.tokens) = 3
    /\ parser.tokens[1].type = "Print"
    /\ parser.statements = <<>>
    /\ errors = <<ErrorAtLine(2, "Expected ';' after value."),
                  ErrorAtLine(2, "Expected ';' after value.")>>

(***************************************************************************)
(* Blocks and the environment chain.                                       *)
(***************************************************************************)
\* A call of execute_block whose block failed inside a block nested in it
\* has been made, and the statement has returned to its caller.
C7_NestedBlockFailed ==
    /\ driver.pc = "executing"
    /\ ~driver.ok
    /\ \E call \in vm.block_log : call.previous >= 2 /\ ~call.ok
    /\ \E call \in vm.block_log : call.previous = 1 /\ ~call.ok

\* C7: every call of execute_block, at any depth, whether its block
\* succeeded or failed, has left as the current environment the one it found,
\* and after every top-level statement the current environment is the global
\* one, no other environment being left.
C7_BlockRestoresEnvironment ==
    /\ vm.environment = 1
    /\ Len(vm.envs) = 1
    /\ \A call \in vm.block_log : call.restored = call.previous

\* The expression holds an assignment to name.
RECURSIVE AssignsTo(_, _)
AssignsTo(expr, name) ==
    CASE expr.kind = "Assignment" ->
            expr.name.text = name \/ AssignsTo(expr.value, name)
      [] expr.kind \in {"Binary", "Logical"} ->
            AssignsTo(expr.left, name) \/ AssignsTo(expr.right, name)
      [] expr.kind = "Unary" -> AssignsTo(expr.right, name)
      [] expr.kind = "Grouping" -> AssignsTo(expr.expression, name)
      [] OTHER -> FALSE

\* The statements hold an assignment to name that is not preceded, in its
\* block or in a block around it, by a declaration of name.
RECURSIVE AssignsOuter(_, _)
AssignsOuter(statements, name) ==
    IF statements = <<>> THEN FALSE
    ELSE LET first == Head(statements)
             rest == Tail(statements)
         IN CASE first.kind = "Variable" ->
                    \/ AssignsTo(first.value, name)
                    \/ first.name.text # name /\ AssignsOuter(rest, name)
              [] first.kind \in {"Expression", "Print"} ->
                    AssignsTo(first.expression, name) \/ AssignsOuter(rest, name)
              [] first.kind = "Block" ->
                    AssignsOuter(first.statements, name) \/ AssignsOuter(rest, name)
              [] first.kind = "If" ->
                    \/ AssignsTo(first.condition, name)
                    \/ AssignsOuter(<<first.then_branch>>, name)
                    \/ first.else_branch # NoStatement
                       /\ AssignsOuter(<<first.else_branch>>, name)
                    \/ AssignsOuter(rest, name)
              [] first.kind = "While" ->
                    \/ AssignsTo(first.condition, name)
                    \/ AssignsOuter(<<first.body>>, name)
                    \/ AssignsOuter(rest, name)

\* { var a = 2; print a; }
ShadowingBlock ==
    BlockStatement(<<VariableStatement(Name("a"), Number(2)),
                     PrintStatement(Variable(Name("a")))>>)

\* The block { var a = 2; print a; } has run where the global a is 1.
C8_ShadowingBlockDone ==
    /\ driver.pc = "executing"
    /\ driver.statement = ShadowingBlock
    /\ driver.ok
    /\ vm.stdout = <<"2">>
    /\ "a" \in DOMAIN vm.envs[1].values
    /\ vm.envs[1].values["a"] = NumberValue(Whole(1))

\* C8: the execution of a block, at any depth, leaves every environment of
\* the chain around it with the names it had; the value of a global name
\* changes in the execution of a block only if the block holds an assignment
\* to the name that no declaration of the name in the block precedes; and
\* after var a = 1; the block { var a = 2; print a; } prints 2 and a
\* print a; after it prints 1.
C8_BlockKeepsOuterBindings ==
    [][/\ (driver'.pc = "executing" /\ driver'.statement.kind = "Block") =>
            /\ \A call \in vm'.block_log : call.names_after = call.names_before
            /\ DOMAIN vm'.envs[1].values = DOMAIN vm.envs[1].values
            /\ \A name \in DOMAIN vm.envs[1].values :
                  vm'.envs[1].values[name] # vm.envs[1].values[name]
                  => AssignsOuter(driver'.statement.statements, name)
       /\ (/\ driver'.pc = "executing"
           /\ driver'.statement = ShadowingBlock
           /\ "a" \in DOMAIN vm.envs[1].values) =>
            /\ driver'.ok
            /\ vm'.stdout = <<Display(NumberValue(Whole(2)))>>
            /\ vm'.envs = vm.envs
       /\ (/\ driver.statement = ShadowingBlock
           /\ driver'.pc = "executing"
           /\ driver'.statement = PrintStatement(Variable(Name("a")))
           /\ "a" \in DOMAIN vm.envs[1].values
           /\ vm.envs[1].values["a"] = NumberValue(Whole(1))) =>
            /\ driver'.ok
            /\ vm'.stdout = <<"1">>]_vars

\* The environments of the chain from env outwards.
RECURSIVE Chain(_, _)
Chain(envs, env) ==
    IF env = 0 THEN <<>> ELSE <<env>> \o Chain(envs, envs[env].enclosing)

\* The innermost environment of the chain from env outwards that binds
\* name, or 0.
Binder(envs, env, name) ==
    LET chain == Chain(envs, env)
        binding == {i \in 1..Len(chain) : name \in DOMAIN envs[chain[i]].values}
    IN IF binding = {} THEN 0
       ELSE chain[CHOOSE i \in binding : \A j \in binding : i <= j]

\* An assignment from the innermost of three environments has overwritten
\* the binding of a in the middle one, a being bound in the global one too
\* and b in the innermost one.
C9_AssignedThroughChain ==
    /\ driver.pc = "calling"
    /\ driver.op = "assign"
    /\ driver.name = "a"
    /\ driver.ok
    /\ vm.environment = 3
    /\ DOMAIN vm.envs[3].values = {"b"}
    /\ "a" \in DOMAIN vm.envs[2].values
    /\ "a" \in DOMAIN vm.envs[1].values
    /\ vm.envs[2].values["a"] = NumberValue(Whole(2))
    /\ vm.envs[1].values["a"] = NumberValue(Whole(1))

\* C9: the read of a name bound in the chain yields the value of its
\* innermost binding and changes nothing; the assignment to a name bound in
\* the chain, made once its right-hand side is evaluated, overwrites the
\* innermost binding of the name and no other, and yields the value
\* assigned.
C9_InnermostBinding ==
    [][/\ \A name \in EnvNames :
            (driver'.op = "get" /\ EnvGet(name) /\ Binder(vm.envs, vm.environment, name) # 0) =>
                /\ driver'.ok
                /\ driver'.value =
                      vm.envs[Binder(vm.envs, vm.environment, name)].values[name]
                /\ vm' = vm
       /\ \A name \in EnvNames, value \in EnvValues :
            LET rhs == accept(vm, value)
                binder == Binder(rhs.m.envs, vm.environment, name)
            IN (driver'.op = "assign" /\ EnvAssign(name, value) /\ rhs.ok /\ binder # 0) =>
                /\ driver'.ok
                /\ driver'.value = rhs.value
                /\ vm'.envs = [rhs.m.envs EXCEPT ![binder].values[name] = rhs.value]
                /\ vm'.environment = vm.environment]_vars

\* An assignment to a, bound nowhere, has failed in the inner of two
\* environments that both bind b.
C10_AssignmentToUnboundFailed ==
    /\ driver.pc = "calling"
    /\ driver.op = "assign"
    /\ driver.name = "a"
    /\ ~driver.ok
    /\ driver.error = [kind |-> "UndefinedVariable",
                       message |-> "a variable is not defined"]
    /\ vm.environment = 2
    /\ DOMAIN vm.envs[1].values = {"b"}
    /\ DOMAIN vm.envs[2].values = {"b"}

\* C10: the read of a name bound nowhere in the chain fails with
\* UndefinedVariable; the assignment to such a name, made once its right-hand
\* side is evaluated, fails with UndefinedVariable and leaves every
\* environment as the evaluation of the right-hand side left it.
C10_UnboundNameFails ==
    [][/\ \A name \in EnvNames :
            (driver'.op = "get" /\ EnvGet(name) /\ Binder(vm.envs, vm.environment, name) = 0) =>
                /\ ~driver'.ok
                /\ driver'.error.kind = "UndefinedVariable"
                /\ vm' = vm
       /\ \A name \in EnvNames, value \in EnvValues :
            LET rhs == accept(vm, value)
                binder == Binder(rhs.m.envs, vm.environment, name)
            IN (driver'.op = "assign" /\ EnvAssign(name, value) /\ rhs.ok /\ binder = 0) =>
                /\ ~driver'.ok
                /\ driver'.error.kind = "UndefinedVariable"
                /\ vm' = rhs.m]_vars

(***************************************************************************)
(* The pipeline.                                                           *)
(***************************************************************************)
\* C2: the process started on a file holding
\* var x = "hi"; print x + " there"; ends with the diagnostic list empty,
\* nothing written to standard error, the exit code 0 and the one line
\* hi there printed.
C2_HiTherePrinted ==
    (driver.pc # "prompt" /\ driver.mode = "file" /\ driver.code = HiThereSource
     /\ driver.exited) =>
        /\ errors = <<>>
        /\ driver.stderr = <<>>
        /\ driver.exit_code = 0
        /\ vm.stdout = <<"hi there">>

\* C5: in REPL mode the process does not end in the loop of run over the
\* statements of a line, where a runtime error is reported: it reads the
\* next line.
C5_ReplSurvivesRuntimeError ==
    (driver.mode = "repl" /\ driver.pc = "evaluate") => ~driver.exited

\* In REPL mode, after a line that gave a its value, the line
\* a = 2; 1 = 2; has been parsed into two statements with the diagnostic of
\* the invalid target and the process has ended, a keeping its value.
C6_HaltedOnInvalidTarget ==
    /\ driver.mode = "repl"
    /\ driver.code = InvalidTargetSource
    /\ driver.pc = "parse"
    /\ driver.exited
    /\ driver.exit_code = 1
    /\ Len(parser.statements) = 2
    /\ errors = <<ErrorAtLine(1, "Invalid assignment target.")>>
    /\ vm.stdout = <<>>
    /\ "a" \in DOMAIN vm.envs[1].values
    /\ vm.envs[1].values["a"] = NumberValue(Whole(1))

\* C6: the calls of a run come in the order scan, parse, evaluation; the
\* Parser is made only once the scan is done with an empty diagnostic list,
\* and the Vm changes, in its bindings or in what it has printed, only in
\* the loop over the statements, entered once the parse is done with an
\* empty diagnostic list.
C6_StagesHaltOnDiagnostics ==
    [][/\ parser' # parser =>
            \/ driver.pc = "prompt" /\ parser' = ParserIdle
            \/ driver.pc = "scan" /\ scanner.pc = "done" /\ errors = <<>>
               /\ parser' = Parser_new(scanner.tokens, driver.overflow_checks)
            \/ driver.pc = "parse" /\ driver'.pc = "parse" /\ scanner.pc = "done"
       /\ scanner' # scanner =>
            \/ driver.pc = "prompt" /\ driver'.pc = "scan"
            \/ driver.pc = "scan" /\ driver'.pc = "scan"
       /\ vm' # vm =>
            /\ driver.pc = "evaluate"
            /\ scanner.pc = "done"
            /\ parser.pc = "done"
            /\ errors = <<>>
       /\ driver'.pc # driver.pc =>
            <<driver.pc, driver'.pc>> \in
                {<<"prompt", "scan">>, <<"scan", "parse">>, <<"scan", "returned">>,
                 <<"parse", "evaluate">>, <<"parse", "returned">>,
                 <<"evaluate", "returned">>, <<"returned", "prompt">>}]_vars


\* ---------------------------------------------------------------------
\* C11: batches execute in order and stop at the first runtime error.

\* The Vm after the first k statements of a list were executed one after the
\* other from m, each from the state its predecessor left.
RECURSIVE StateAfter(_, _, _)
StateAfter(m, statements, k) ==
    IF k = 0 THEN m
    ELSE visit_statement(StateAfter(m, statements, k - 1), statements[k]).m

\* The indices of the statements of a list that fail when the list is executed
\* in order from m.
Failures(m, statements) ==
    {k \in 1..Len(statements) :
        ~visit_statement(StateAfter(m, statements, k - 1), statements[k]).ok}

\* The Vm as a block entered from m finds it: a fresh environment enclosed by
\* the current one.
Entered(m) ==
    [m EXCEPT !.envs = Append(@, Environment_new(m.environment)),
              !.environment = Len(m.envs) + 1]

\* What a statement list executed from m must leave when it stops at its
\* first failing statement, or after its last statement when none fails.
StoppedAtFirstFailure(m, statements) ==
    LET failing == Failures(m, statements)
        last == IF failing = {} THEN Len(statements)
                ELSE CHOOSE k \in failing : \A j \in failing : k <= j
    IN [ok |-> failing = {}, m |-> StateAfter(m, statements, last)]

\* A step of the loop of run over a non-empty statement list.
RunsAStatement ==
    /\ driver.pc = "evaluate" /\ driver.statements # <<>> /\ ~driver.exited
    /\ vm.pc = "ready"
    /\ vm' # vm \/ driver' # driver

\* C11: the loop of run takes the statements in source order and after a
\* runtime error executes none of the later ones (the process exits with the
\* statement list where it was, and the Vm never changes again), while the
\* lines printed and the bindings made before the error stay; a block
\* executes its statements in order from a fresh environment, stops at its
\* first failing statement and leaves the lines printed and the outer
\* bindings made up to there.
C11_BatchStopsAtFirstError ==
    [][/\ driver.pc = "evaluate" /\ driver.exited => vm' = vm
       /\ RunsAStatement =>
            LET stmt == Head(driver.statements)
                expected == StoppedAtFirstFailure(Entered(vm), stmt.statements)
            IN /\ \/ /\ ~driver'.exited
                        /\ driver'.statements = Tail(driver.statements)
                     \/ /\ driver'.exited
                        /\ driver'.exit_code = 1
                        /\ driver'.statements = driver.statements
                        /\ vm'.pc = "ready"
               /\ Len(vm'.stdout) >= Len(vm.stdout)
               /\ SubSeq(vm'.stdout, 1, Len(vm.stdout)) = vm.stdout
               /\ stmt.kind \in {"Print", "Expression", "Variable"} /\ driver'.exited
                    => vm'.envs = vm.envs
               /\ stmt.kind = "Block" =>
                    /\ driver'.exited = ~expected.ok
                    /\ vm'.stdout = expected.m.stdout
                    /\ vm'.envs = SubSeq(expected.m.envs, 1, vm.environment)
                    /\ vm'.environment = vm.environment]_vars

\* The run of `var a = 1; { print a; a = 2; print b; print a; } print a;` has
\* exited at `print b;`: 1 was printed and a was assigned, the block and the
\* last statement are still in the list, nothing else was printed.
C11_BlockFailedMidway ==
    /\ driver.pc = "evaluate" /\ driver.exited /\ driver.exit_code = 1
    /\ Len(driver.statements) = 2
    /\ driver.statements[1].kind = "Block"
    /\ Len(driver.statements[1].statements) = 4
    /\ vm.stdout = <<"1">>
    /\ vm.envs[1].values["a"] = NumberValue(Whole(2))
    /\ driver.stderr = <<"Runtime error: b variable is not defined">>


\* ---------------------------------------------------------------------
\* C12: the logical operators short-circuit and yield an operand.

\* C12: the visit of a Logical node whose left operand has a value evaluates
\* the right operand exactly when the left one does not decide (`or`: left
\* not truthy, `and`: left truthy); when the right operand is skipped the Vm
\* is the one the left operand left, so an assignment in the right operand
\* has not happened; the result is the value of the last operand evaluated,
\* as it is: 15 or 5 is 15, false or 5 is 5, true and 5 is 5, false and 5 is
\* false.
C12_LogicalShortCircuits ==
    [][LET expr == driver'.expr
           left == accept(vm, expr.left)
           right == accept(left.m, expr.right)
           decided == IF expr.operator.type = "Or" THEN truthy(left.value)
                      ELSE ~truthy(left.value)
           Is(l, op, r, value) ==
               expr = Logical(l, Token(op, 1), r)
                   => driver'.ok /\ driver'.value = value
       IN driver'.expr.kind = "Logical" =>
            /\ left.ok /\ decided =>
                  /\ driver'.ok /\ driver'.value = left.value
                  /\ vm' = left.m
            /\ left.ok /\ ~decided =>
                  /\ driver'.ok = right.ok /\ driver'.value = right.value
                  /\ driver'.error = right.error
                  /\ vm' = right.m
            /\ Is(Number(15), "Or", Number(5), NumberValue(Whole(15)))
            /\ Is(Literal(BooleanValue(FALSE)), "Or", Number(5), NumberValue(Whole(5)))
            /\ Is(Literal(BooleanValue(TRUE)), "And", Number(5), NumberValue(Whole(5)))
            /\ Is(Literal(BooleanValue(FALSE)), "And", Number(5), BooleanValue(FALSE))
      ]_vars

\* `true or (a = 5)` was visited: its value is true and a is still 1.
C12_AssignmentSkipped ==
    /\ driver.pc = "visiting"
    /\ driver.expr = Logical(Literal(BooleanValue(TRUE)), Token("Or", 1),
                             Assignment(Name("a"), Number(5)))
    /\ driver.ok /\ driver.value = BooleanValue(TRUE)
    /\ vm.envs[1].values["a"] = NumberValue(Whole(1))


\* ---------------------------------------------------------------------
\* C13: a String token is a primary expression.

\* C13: once the tokens of `print "y";` are parsed, the statements are the one
\* Print statement of the Literal carrying the string of the String token,
\* and there is no diagnostic.
C13_PrintStringParses ==
    /\ parser.pc = "done"
    /\ [i \in DOMAIN parser.tokens |-> parser.tokens[i].type]
           = <<"Print", "String", "Semicolon", "Eof">>
    => /\ parser.statements =
              <<PrintStatement(Literal(StringValue(parser.tokens[2].text)))>>
       /\ errors = <<>>


\* ---------------------------------------------------------------------
\* C14: precedence and associativity of the expression grammar.

\* The level of the operator at the root of an expression, loosest first;
\* literals, variables and groupings are tighter than every operator.
Level(expr) ==
    CASE expr.kind = "Assignment" -> 1
      [] expr.kind = "Logical" -> IF expr.operator.type = "Or" THEN 2 ELSE 3
      [] expr.kind = "Binary" ->
            CASE expr.operator.type \in {"BangEqual", "EqualEqual"} -> 4
              [] expr.operator.type \in
                     {"Greater", "GreaterEqual", "Less", "LessEqual"} -> 5
              [] expr.operator.type \in {"Minus", "Plus"} -> 6
              [] OTHER -> 7
      [] expr.kind = "Unary" -> 8
      [] OTHER -> 9

\* Every binary or logical node has on its left nothing looser than its own
\* operator and on its right only what is tighter, and the operand of a unary
\* node is a unary node or tighter.
RECURSIVE Layered(_)
Layered(expr) ==
    CASE expr.kind \in {"Binary", "Logical"} ->
            /\ Level(expr.left) >= Level(expr)
            /\ Level(expr.right) > Level(expr)
            /\ Layered(expr.left) /\ Layered(expr.right)
      [] expr.kind = "Unary" -> Level(expr.right) >= 8 /\ Layered(expr.right)
      [] expr.kind = "Assignment" -> Layered(expr.value)
      [] expr.kind = "Grouping" -> Layered(expr.expression)
      [] OTHER -> TRUE

\* The types and lines of the operators and names of an expression, read
\* from left to right.
RECURSIVE InOrder(_)
InOrder(expr) ==
    CASE expr.kind \in {"Binary", "Logical"} ->
            InOrder(expr.left) \o <<<<expr.operator.type, expr.operator.line>>>>
                \o InOrder(expr.right)
      [] expr.kind = "Unary" ->
            <<<<expr.operator.type, expr.operator.line>>>> \o InOrder(expr.right)
      [] expr.kind = "Assignment" ->
            <<<<"Identifier", expr.name.line>>, <<"Equal", expr.name.line + 1>>>>
                \o InOrder(expr.value)
      [] expr.kind = "Grouping" -> InOrder(expr.expression)
      [] expr.kind = "Variable" -> <<<<"Identifier", expr.token.line>>>>
      [] OTHER -> <<>>

\* The expressions of a statement.
RECURSIVE Expressions(_)
Expressions(stmt) ==
    CASE stmt.kind \in {"Expression", "Print"} -> {stmt.expression}
      [] stmt.kind = "Variable" -> {stmt.value}
      [] stmt.kind = "Block" ->
            UNION {Expressions(stmt.statements[i]) : i \in DOMAIN stmt.statements}
      [] stmt.kind = "If" ->
            {stmt.condition} \cup Expressions(stmt.then_branch)
                \cup Expressions(stmt.else_branch)
      [] stmt.kind = "While" -> {stmt.condition} \cup Expressions(stmt.body)
      [] OTHER -> {}

\* The types and lines of the operators and names of a token list.
OperatorsAndNames(tokens) ==
    LET kept == {i \in DOMAIN tokens :
                    tokens[i].type \notin {"Number", "String", "True", "False", "Nil",
                                           "LeftParen", "RightParen", "Semicolon",
                                           "Eof"}}
        Sorted[n \in 0..Len(tokens)] ==
            IF n = 0 THEN <<>>
            ELSE IF n \in kept
                 THEN Append(Sorted[n - 1], <<tokens[n].type, tokens[n].line>>)
                 ELSE Sorted[n - 1]
    IN Sorted[Len(tokens)]

\* C14: in every statement parsed, each operator has on its left nothing that
\* binds looser than itself and on its right only what binds tighter, for the
\* levels assignment, or, and, equality, comparison, term, factor, unary from
\* loosest to tightest (so the binary operators associate to the left and !
\* and - nest to the right); an expression statement parsed alone without a
\* diagnostic keeps its operators and names in the order of the tokens; and
\* `print 1 + 2 * 3;` is Print(1 + (2 * 3)), which prints 7.
C14_PrecedenceAndAssociativity ==
    /\ \A i \in DOMAIN parser.statements :
           \A expr \in Expressions(parser.statements[i]) : Layered(expr)
    /\ /\ parser.pc = "done" /\ errors = <<>> /\ Len(parser.statements) = 1
       /\ parser.statements[1].kind = "Expression"
       => InOrder(parser.statements[1].expression) = OperatorsAndNames(parser.tokens)
    /\ /\ parser.pc = "done"
       /\ [i \in DOMAIN parser.tokens |-> parser.tokens[i].type]
              = <<"Print", "Number", "Plus", "Number", "Star", "Number",
                  "Semicolon", "Eof">>
       => /\ parser.statements =
                 <<PrintStatement(
                     Binary(Literal(NumberValue(parser.tokens[2].number)),
                            parser.tokens[3],
                            Binary(Literal(NumberValue(parser.tokens[4].number)),
                                   parser.tokens[5],
                                   Literal(NumberValue(parser.tokens[6].number)))))>>
          /\ visit_statement(Vm_new, parser.statements[1]).m.stdout = <<"7">>

\* `x - 1 - x;` is parsed: the statement is ((x - 1) - x).
C14_SubtractionParsedLeftToRight ==
    /\ parser.pc = "done"
    /\ errors = <<>>
    /\ parser.statements =
          <<ExpressionStatement(
              Binary(Binary(Variable(IdentifierToken(1, "x")), Token("Minus", 2),
                            Literal(NumberValue(Whole(1)))),
                     Token("Minus", 4), Variable(IdentifierToken(5, "x"))))>>


\* ---------------------------------------------------------------------
\* C15: assignment targets.

\* C15: wherever a statement may begin, when `=` follows the expression that
\* Parser::or parses there, Parser::assignment parses what follows `=` as an
\* assignment again and ends where that one ends; for a Variable on the left
\* it returns the Assignment of the value to that name and adds no
\* diagnostic, for anything else it returns the left expression as it is and
\* adds exactly one 'Invalid assignment target.' diagnostic.  The statement
\* around it goes on: `1 = ;` parses to the expression statement of 1 with
\* that one diagnostic, and the parser does not synchronize.
C15_AssignmentTargets ==
    /\ parser.pc = "parsing" =>
         LET p == ParserWithErrors(parser, errors)
             left == parse_rule("or", p)
             value == parse_rule("assignment", Parser_advance(left.p))
             result == parse_rule("assignment", p)
         IN ~left.panicked /\ Parser_peek(left.p).type = "Equal" /\ ~value.panicked =>
              /\ ~result.panicked
              /\ result.p.current = value.p.current
              /\ IF left.expr.kind = "Variable"
                 THEN /\ result.expr = Assignment(left.expr.token, value.expr)
                      /\ result.p.errors = value.p.errors
                 ELSE /\ result.expr = left.expr
                      /\ result.p.errors =
                            Append(value.p.errors,
                                   "[line "
                                   \o ToString(value.p.tokens[value.p.current].line)
                                   \o "] Error: Invalid assignment target.")
    /\ /\ parser.pc = "done"
       /\ [i \in DOMAIN parser.tokens |-> parser.tokens[i].type]
              = <<"Number", "Equal", "Semicolon", "Eof">>
       => /\ parser.statements =
                 <<ExpressionStatement(Literal(NumberValue(parser.tokens[1].number)))>>
          /\ errors = <<"[line 2] Error: Invalid assignment target.">>
          /\ parser.current = 3

\* `1 = ;` is parsed: one expression statement and one diagnostic.
C15_InvalidTargetKept ==
    /\ parser.pc = "done"
    /\ [i \in DOMAIN parser.tokens |-> parser.tokens[i].type]
           = <<"Number", "Equal", "Semicolon", "Eof">>
    /\ parser.statements = <<ExpressionStatement(Literal(NumberValue(Whole(1))))>>
    /\ errors = <<"[line 2] Error: Invalid assignment target.">>


\* ---------------------------------------------------------------------
\* C16: Parser::synchronize.

\* C16: in an iteration of Parser::parse whose declaration fails at cursor
\* failed.current, the synchronize that follows leaves the cursor at least one
\* token further unless the failure was at Eof, where it leaves it in place;
\* on its return the token before the cursor is `;` or the token at the
\* cursor is class, fun, var, for, if, while, print, return or Eof; and the
\* cursor is never past Eof.
C16_SynchronizeStopsAtBoundary ==
    [][LET failed == parse_rule("declaration", ParserWithErrors(parser, errors))
       IN /\ parser.pc = "parsing"
          /\ Parser_peek(parser).type \notin {"None", "Eof"}
          /\ ~failed.ok /\ failed.p.pc # "panicked"
          => /\ parser'.pc = "parsing"
             /\ parser'.statements = parser.statements
             /\ IF Parser_peek(failed.p).type = "Eof"
                THEN parser'.current = failed.p.current
                ELSE parser'.current >= failed.p.current + 1
             /\ \/ Parser_previous(parser').type = "Semicolon"
                \/ Parser_peek(parser').type \in
                       {"Class", "Fun", "Var", "For", "If", "While", "Print",
                        "Return", "Eof"}
             /\ parser'.current < Len(parser'.tokens)
             /\ parser'.tokens[Len(parser'.tokens)].type = "Eof"
      ]_vars

\* `x x ;` failed at the second x, and synchronize consumed it and the `;`.
C16_SynchronizedAfterSemicolon ==
    /\ parser.pc = "parsing"
    /\ [i \in DOMAIN parser.tokens |-> parser.tokens[i].type]
           = <<"Identifier", "Identifier", "Semicolon", "Eof">>
    /\ parser.current = 3
    /\ parser.statements = <<>>
    /\ Len(errors) = 2


\* ---------------------------------------------------------------------
\* C17: current counts the bytes of the characters taken from the iterator.

\* C17: whenever an iteration of the loop of scan begins, current is the
\* number of bytes of the characters that `chars` has yielded so far.
C17_CurrentCountsCharsTaken ==
    scanner.pc = "scanning" /\ scanner.current < ByteLen(scanner.source)
        => scanner.current = ByteLen(SubSeq(scanner.source, 1, scanner.chars))


\* ---------------------------------------------------------------------
\* C18: the line of a token.

\* C18: a token pushed by an iteration of the loop of scan carries the line
\* 1 + the number of newlines before its last character, which is the last
\* character that `chars` yielded for it (or the one before the character
\* that take_while took after a fraction).
C18_TokenLineCountsNewlines ==
    [][/\ scanner.pc = "scanning" /\ scanner'.pc = "scanning"
       /\ Len(scanner'.tokens) = Len(scanner.tokens) + 1
       => scanner'.tokens[Len(scanner'.tokens)].line =
             1 + Cardinality({i \in 1..(scanner'.chars - 1) :
                                 scanner.source[i] = "\n"})
      ]_vars


\* ---------------------------------------------------------------------
\* C19: unterminated strings.

\* The iteration that begins takes a `"` from `chars`, and no `"` follows it.
OpensUnterminatedString ==
    /\ scanner.pc = "scanning" /\ scanner.current < ByteLen(scanner.source)
    /\ chars_peek(scanner) = "\""
    /\ \A i \in (scanner.chars + 2)..Len(scanner.source) : scanner.source[i] # "\""

\* C19: the iteration of the loop of scan that opens a string with no closing
\* quote pushes no token and keeps the earlier ones, adds the one diagnostic
\* 'Unterminated string at line N' where N is the line after the newlines of
\* the string, and leaves the loop of scan at its end, so that Eof is pushed
\* next.
C19_UnterminatedStringReported ==
    [][OpensUnterminatedString =>
         /\ scanner'.tokens = scanner.tokens
         /\ errors' =
               Append(errors,
                      "Unterminated string at line "
                      \o ToString(scanner.line
                                  + Cardinality({i \in (scanner.chars + 2)..
                                                       Len(scanner.source) :
                                                    scanner.source[i] = "\n"})))
         /\ scanner'.pc = "scanning"
         /\ scanner'.current >= ByteLen(scanner.source)
      ]_vars


\* ---------------------------------------------------------------------
\* C20: the operand types of +, - and *.

\* C20: the visit of l + r, l - r or l * r between two literals yields the
\* Number sum, difference or product when both are Numbers, for + the String
\* of the left text followed by the right text when both are Strings, and
\* for every other pair of variants an ArgumentError and no value.
C20_ArithmeticOperandTypes ==
    /\ driver.pc = "visiting"
    /\ driver.expr.kind = "Binary"
    /\ driver.expr.operator.type \in {"Plus", "Minus", "Star"}
    /\ driver.expr.left.kind = "Literal" /\ driver.expr.right.kind = "Literal"
    => LET l == driver.expr.left.value
           r == driver.expr.right.value
           operator == driver.expr.operator.type
       IN CASE l.type = "Number" /\ r.type = "Number" ->
                 /\ driver.ok
                 /\ driver.value =
                       NumberValue(Whole(CASE operator = "Plus" ->
                                                 l.number[1] + r.number[1]
                                           [] operator = "Minus" ->
                                                 l.number[1] - r.number[1]
                                           [] OTHER -> l.number[1] * r.number[1]))
            [] l.type = "String" /\ r.type = "String" /\ operator = "Plus" ->
                 driver.ok /\ driver.value = StringValue(l.text \o r.text)
            [] OTHER ->
                 /\ ~driver.ok
                 /\ driver.error.kind = "ArgumentError"
                 /\ driver.value = NilValue

\* "x" + "y" was visited and is "xy".
C20_StringsConcatenated ==
    /\ driver.pc = "visiting"
    /\ driver.expr = Binary(Literal(StringValue("x")), Token("Plus", 1),
                            Literal(StringValue("y")))
    /\ driver.ok /\ driver.value = StringValue("xy")


\* ---------------------------------------------------------------------
\* C21: division.

\* C21: the visit of l / r between two literals fails with ZeroDivision when
\* both are Numbers and r is zero, fails with ArgumentError when either is not
\* a Number, whatever the other is, and otherwise yields the Number q with
\* q * r = l.
C21_DivisionOperands ==
    /\ driver.pc = "visiting"
    /\ driver.expr.kind = "Binary"
    /\ driver.expr.operator.type = "Slash"
    /\ driver.expr.left.kind = "Literal" /\ driver.expr.right.kind = "Literal"
    => LET l == driver.expr.left.value
           r == driver.expr.right.value
       IN CASE l.type = "Number" /\ r.type = "Number" /\ r.number[1] = 0 ->
                 /\ ~driver.ok
                 /\ driver.error.kind = "ZeroDivision"
                 /\ driver.value = NilValue
            [] l.type = "Number" /\ r.type = "Number" /\ r.number[1] # 0 ->
                 /\ driver.ok
                 /\ driver.value.type = "Number"
                 /\ driver.value.number[2] > 0
                 /\ driver.value.number[1] * r.number[1]
                        = l.number[1] * driver.value.number[2]
            [] OTHER ->
                 /\ ~driver.ok
                 /\ driver.error.kind = "ArgumentError"
                 /\ driver.value = NilValue

\* 15 / 0 was visited and failed with ZeroDivision.
C21_DividedByZero ==
    /\ driver.pc = "visiting"
    /\ driver.expr = Binary(Number(15), Token("Slash", 1), Number(0))
    /\ ~driver.ok
    /\ driver.error = [kind |-> "ZeroDivision", message |-> "Cannot divide 15 by zero"]


\* ---------------------------------------------------------------------
\* C22: the comparisons.

\* C22: the visit of l < r, l <= r, l > r or l >= r between two literals
\* never fails; it yields the Boolean of the comparison of the numbers when
\* both are Numbers and Boolean(false) for every other pair, equal or not.
C22_ComparisonsNeverFail ==
    /\ driver.pc = "visiting"
    /\ driver.expr.kind = "Binary"
    /\ driver.expr.operator.type \in {"Less", "LessEqual", "Greater", "GreaterEqual"}
    /\ driver.expr.left.kind = "Literal" /\ driver.expr.right.kind = "Literal"
    => LET l == driver.expr.left.value
           r == driver.expr.right.value
           operator == driver.expr.operator.type
       IN /\ driver.ok
          /\ driver.error = NoError
          /\ driver.value =
                BooleanValue(/\ l.type = "Number" /\ r.type = "Number"
                             /\ CASE operator = "Less" -> l.number[1] < r.number[1]
                                  [] operator = "LessEqual" ->
                                        l.number[1] <= r.number[1]
                                  [] operator = "Greater" -> l.number[1] > r.number[1]
                                  [] OTHER -> l.number[1] >= r.number[1])

\* "x" <= "x" was visited and is false.
C22_EqualStringsNotOrdered ==
    /\ driver.pc = "visiting"
    /\ driver.expr = Binary(Literal(StringValue("x")), Token("LessEqual", 1),
                            Literal(StringValue("x")))
    /\ driver.ok /\ driver.value = BooleanValue(FALSE)


\* ---------------------------------------------------------------------
\* C23: truthiness and the unary operators.

\* C23: the visit of !r for a literal r never fails and yields Boolean(true)
\* exactly when r is nil or false, so every Number and every String, 0 and
\* the empty one included, is truthy; the visit of -r yields the Number of
\* the opposite sign for a Number and fails with ArgumentError, without a
\* value, for every other variant.
C23_TruthinessAndUnary ==
    /\ driver.pc = "visiting"
    /\ driver.expr.kind = "Unary"
    /\ driver.expr.right.kind = "Literal"
    => LET r == driver.expr.right.value
       IN CASE driver.expr.operator.type = "Bang" ->
                 /\ driver.ok
                 /\ driver.value =
                       BooleanValue(r = NilValue \/ r = BooleanValue(FALSE))
            [] driver.expr.operator.type = "Minus" /\ r.type = "Number" ->
                 /\ driver.ok
                 /\ driver.value = NumberValue(Whole(0 - r.number[1]))
            [] OTHER ->
                 /\ ~driver.ok
                 /\ driver.error.kind = "ArgumentError"
                 /\ driver.value = NilValue

\* !0 was visited and is false.
C23_ZeroIsTruthy ==
    /\ driver.pc = "visiting"
    /\ driver.expr = Unary(Token("Bang", 1), Number(0))
    /\ driver.ok /\ driver.value = BooleanValue(FALSE)


\* ---------------------------------------------------------------------
\* C24: the while statement.

\* The Vm at the k-th evaluation of the condition of a while statement
\* entered from m, counted from 0, when every evaluation before it was truthy
\* and every execution of the body succeeded.
RECURSIVE AtCondition(_, _, _)
AtCondition(m, w, k) ==
    IF k = 0 THEN m
    ELSE LET before == AtCondition(m, w, k - 1)
             condition == accept(before, w.condition)
         IN IF before.pc # "ready" \/ ~condition.ok THEN before
            ELSE visit_statement(condition.m, w.body).m

\* The evaluations of the condition after which the loop does not go on: the
\* condition fails or is not truthy, or the body fails.
LoopEnds(m, w) ==
    {k \in 0..MaxIterations :
        LET condition == accept(AtCondition(m, w, k), w.condition)
        IN \/ ~condition.ok
           \/ ~truthy(condition.value)
           \/ ~visit_statement(condition.m, w.body).ok}

\* What a while statement entered from m must leave when its loop ends with
\* the n-th evaluation of the condition, after n executions of the body.
EndsWith(m, w, n) ==
    LET condition == accept(AtCondition(m, w, n), w.condition)
        body == visit_statement(condition.m, w.body)
    IN CASE ~condition.ok -> condition
         [] condition.ok /\ ~truthy(condition.value) -> Done(condition.m, NilValue)
         [] OTHER -> body

\* C24: a while statement whose loop ends within MaxIterations executions of
\* the body leaves what the alternation condition, body, condition, ... leaves
\* up to the first evaluation of the condition that is not truthy (success),
\* or the first failure of the condition or the body (that error); so the
\* condition is evaluated once more than the body is executed:
\* `while ((a = a + 1) < 4) b = b + 1;` adds to a one more than to b.  From
\* n = 0, `while (n < 3) { n = n + 1; print n; }` prints 1, 2, 3 and ends
\* with n = 3.
C24_WhileAlternates ==
    [][/\ driver.pc = "executing" /\ driver'.executed = driver.executed + 1
       /\ driver'.statement.kind = "While"
       => LET entered == [vm EXCEPT !.stdout = <<>>, !.block_log = {}]
              w == driver'.statement
              ends == LoopEnds(entered, w)
              n == CHOOSE k \in ends : \A j \in ends : k <= j
              expected == EndsWith(entered, w, n)
              global(m, name) == m.envs[1].values[name].number[1]
          IN /\ ends # {} =>
                  /\ driver'.ok = expected.ok
                  /\ driver'.error = expected.error
                  /\ vm' = expected.m
             /\ /\ w.body.kind = "Expression"
                /\ driver'.ok
                /\ "b" \in DOMAIN vm.envs[1].values
                => global(vm', "a") - global(vm, "a")
                       = global(vm', "b") - global(vm, "b") + 1
             /\ /\ w.condition.left.kind = "Variable"
                /\ w.condition.left.token.text = "n"
                /\ "n" \in DOMAIN vm.envs[1].values
                /\ vm.envs[1].values["n"] = NumberValue(Whole(0))
                => /\ driver'.ok
                   /\ vm'.pc = "ready"
                   /\ vm'.stdout = <<"1", "2", "3">>
                   /\ vm'.envs[1].values["n"] = NumberValue(Whole(3))
      ]_vars

\* `var n = 0; while (n < 3) { n = n + 1; print n; }` was executed.
C24_CountedToThree ==
    /\ driver.pc = "executing"
    /\ driver.statement.kind = "While"
    /\ driver.statement.condition.left = Variable(Name("n"))
    /\ driver.ok
    /\ vm.stdout = <<"1", "2", "3">>
    /\ vm.envs[1].values["n"] = NumberValue(Whole(3))

\* The statement or expression is one AstPrinter has an arm for.
RECURSIVE Printable(_)
Printable(node) ==
    CASE node.kind \in {"Expression", "Print"} -> Printable(node.expression)
      [] node.kind = "Variable" -> "token" \in DOMAIN node \/ Printable(node.value)
      [] node.kind = "Block" ->
            \A i \in 1..Len(node.statements) : Printable(node.statements[i])
      [] node.kind = "Assignment" -> Printable(node.value)
      [] node.kind = "Binary" -> Printable(node.left) /\ Printable(node.right)
      [] node.kind = "Grouping" -> Printable(node.expression)
      [] node.kind = "Unary" -> Printable(node.right)
      [] node.kind = "Literal" -> TRUE
      [] OTHER -> FALSE

\* The tree with the line of every token set to 0.
RECURSIVE WithoutLines(_)
WithoutLines(node) ==
    CASE node.kind \in {"Expression", "Print", "Grouping"} ->
            [node EXCEPT !.expression = WithoutLines(@)]
      [] node.kind = "Variable" ->
            IF "token" \in DOMAIN node THEN [node EXCEPT !.token.line = 0]
            ELSE [node EXCEPT !.name.line = 0, !.value = WithoutLines(@)]
      [] node.kind = "Block" ->
            [node EXCEPT !.statements =
                [i \in 1..Len(@) |-> WithoutLines(node.statements[i])]]
      [] node.kind = "Assignment" ->
            [node EXCEPT !.name.line = 0, !.value = WithoutLines(@)]
      [] node.kind = "Binary" ->
            [node EXCEPT !.operator.line = 0, !.left = WithoutLines(@),
                         !.right = WithoutLines(@)]
      [] node.kind = "Unary" ->
            [node EXCEPT !.operator.line = 0, !.right = WithoutLines(@)]
      [] OTHER -> node

\* The text run prints for --print-ast: the printed statements joined by
\* newlines.
PrintedProgram(statements) ==
    LET joined[k \in 0..Len(statements)] ==
            IF k = 0 THEN <<>>
            ELSE (IF k = 1 THEN <<>> ELSE joined[k - 1] \o <<"\n">>)
                 \o AstPrinter_visit_statement(statements[k])
    IN joined[Len(statements)]

\* C25: for every program that parses without diagnostics, printing the
\* parsed statements with the AST printer and scanning and parsing the
\* printed text again yields no diagnostics and the same statements (token
\* lines apart).
C25_PrintedProgramReparses ==
    (/\ parser.pc = "done"
     /\ errors = <<>>
     /\ \A i \in 1..Len(parser.statements) : Printable(parser.statements[i]))
    => LET scanned ==
               Scanner_scan(WithErrors(Scanner_new(PrintedProgram(parser.statements)),
                                       <<>>))
           reparsed ==
               Parser_parse(ParserWithErrors(
                   Parser_new(scanned.tokens, parser.overflow_checks),
                   scanned.errors))
       IN /\ scanned.pc = "done"
          /\ reparsed.pc = "done"
          /\ reparsed.errors = <<>>
          /\ Len(reparsed.statements) = Len(parser.statements)
          /\ \A i \in 1..Len(parser.statements) :
                WithoutLines(reparsed.statements[i]) = WithoutLines(parser.statements[i])

\* C26: parsing a print statement whose `;` is missing (tokens print, Number,
\* Eof) adds two strings to the diagnostic list, both "[line N] Error:
\* Expected ';' after value." with N the line of the Number token, the last
\* one consumed, and adds no statement: print_statement records the message
\* and returns it, and Parser::parse records the returned error again.
C26_MissingSemicolonAfterPrint ==
    [][(/\ parser.pc = "parsing"
        /\ Len(parser.tokens) >= parser.current + 3
        /\ parser.tokens[parser.current + 1].type = "Print"
        /\ parser.tokens[parser.current + 2].type = "Number"
        /\ parser.tokens[parser.current + 3].type = "Eof")
       => LET message == "[line " \o ToString(parser.tokens[parser.current + 2].line)
                             \o "] Error: Expected ';' after value."
          IN /\ errors' = errors \o <<message, message>>
             /\ parser'.statements = parser.statements
             /\ parser'.pc = "parsing"]_vars

C26_PrintWithoutSemicolonParsed ==
    /\ parser.pc = "done"
    /\ Len(parser.tokens) = 3
    /\ parser.tokens[1].type = "Print"
    /\ parser.tokens[2].type = "Number"
    /\ parser.statements = <<>>
    /\ errors = <<"[line 2] Error: Expected ';' after value.",
                  "[line 2] Error: Expected ';' after value.">>


\* The declaration var a = (b = 1) + nil; has failed where b was bound: the
\* assignment has been made, a is not bound.
C27_InitializerFailedAfterAssignment ==
    /\ driver.pc = "calling"
    /\ driver.op = "define"
    /\ driver.name = "a"
    /\ ~driver.ok
    /\ driver.error.kind = "ArgumentError"
    /\ vm.environment = 2
    /\ DOMAIN vm.envs[1].values = {"b"}
    /\ vm.envs[1].values["b"] = NumberValue(Whole(1))
    /\ DOMAIN vm.envs[2].values = {}

\* C27 as stated: when the initializer of a declaration fails, no binding
\* is created or changed.
C27_FailedInitializerChangesNothing ==
    [][\A name \in EnvNames, value \in EnvValues :
          (EnvDefine(name, value) /\ ~accept(vm, value).ok) =>
              /\ ~driver'.ok
              /\ vm'.envs = vm.envs]_vars

\* C27: a variable declaration evaluates its initializer first and then
\* binds the name in the current environment only.  When the initializer
\* fails the declaration fails with its error and leaves the Vm as the
\* initializer left it: no binding is created, and a binding has changed
\* only if the initializer assigns to its name.  Otherwise the current
\* environment binds the name, once, to the value of the initializer, keeps
\* its other bindings, and every other environment is as the initializer
\* left it.  A read of a name the current environment binds yields that
\* binding whatever the enclosing environments bind, and once the scope has
\* ended every name is bound as in the enclosing chain before.
C27_DeclarationBindsInCurrentScope ==
    [][/\ \A name \in EnvNames, value \in EnvValues :
            LET initializer == accept(vm, value)
                before == initializer.m.envs
                current == vm.environment
            IN /\ (driver'.op = "define" /\ EnvDefine(name, value) /\ ~initializer.ok) =>
                    /\ ~driver'.ok
                    /\ driver'.error = initializer.error
                    /\ vm' = initializer.m
                    /\ \A env \in 1..Len(vm.envs) :
                          /\ DOMAIN vm'.envs[env].values = DOMAIN vm.envs[env].values
                          /\ \A other \in DOMAIN vm.envs[env].values :
                                vm'.envs[env].values[other] # vm.envs[env].values[other]
                                => AssignsTo(value, other)
               /\ (driver'.op = "define" /\ EnvDefine(name, value) /\ initializer.ok) =>
                    /\ driver'.ok
                    /\ vm'.environment = current
                    /\ Len(vm'.envs) = Len(before)
                    /\ \A env \in 1..Len(before) :
                          env # current => vm'.envs[env] = before[env]
                    /\ vm'.envs[current].enclosing = before[current].enclosing
                    /\ DOMAIN vm'.envs[current].values =
                          DOMAIN before[current].values \cup {name}
                    /\ vm'.envs[current].values[name] = initializer.value
                    /\ \A other \in DOMAIN before[current].values \ {name} :
                          vm'.envs[current].values[other] = before[current].values[other]
       /\ \A name \in EnvNames :
            (driver'.op = "get" /\ EnvGet(name) /\ name \in DOMAIN vm.envs[vm.environment].values) =>
                /\ driver'.ok
                /\ driver'.value = vm.envs[vm.environment].values[name]
       /\ (driver'.op = "end" /\ EnvLeave) =>
            LET enclosing == vm.envs[vm.environment].enclosing
            IN /\ vm'.environment = enclosing
               /\ \A env \in 1..enclosing : vm'.envs[env] = vm.envs[env]
               /\ \A name \in EnvNames :
                     Binder(vm'.envs, vm'.environment, name) =
                         Binder(vm.envs, enclosing, name)]_vars

\* if ((a = a + 1) > 2) print a;
CountingIf ==
    IfStatement(
        Binary(Grouping(Assignment(Name("a"),
                   Binary(Variable(Name("a")), Token("Plus", 1), Number(1)))),
               Token("Greater", 1), Number(2)),
        PrintStatement(Variable(Name("a"))),
        NoStatement)

\* if ((a = a + 1) > 2) print a; has run where a was 2: a is 3 and 3 is
\* printed.
C28_ConditionCountedOnce ==
    /\ driver.pc = "executing"
    /\ driver.statement = CountingIf
    /\ driver.ok
    /\ vm.stdout = <<"3">>
    /\ vm.envs[1].values["a"] = NumberValue(Whole(3))

\* C28: an if statement evaluates its condition once.  When the condition
\* fails, the statement fails with its error and the Vm is as the condition
\* left it; otherwise the Vm, the result and the error are those of the
\* then-branch run after the condition when its value is neither nil nor
\* false, those of the else-branch run after the condition when it is and
\* there is an else-branch, and those of the condition alone when there is
\* none.
C28_IfRunsOneBranch ==
    [][(driver'.pc = "executing" /\ driver'.executed # driver.executed
        /\ driver'.statement.kind = "If")
       => LET entered == [vm EXCEPT !.stdout = <<>>, !.block_log = {}]
              node == driver'.statement
              condition == accept(entered, node.condition)
              falsy == \/ condition.value.type = "Nil"
                       \/ condition.value.type = "Boolean" /\ ~condition.value.bool
              branch == IF ~falsy THEN visit_statement(condition.m, node.then_branch)
                        ELSE visit_statement(condition.m, node.else_branch)
          IN IF ~condition.ok
             THEN /\ ~driver'.ok
                  /\ driver'.error = condition.error
                  /\ vm' = condition.m
             ELSE IF falsy /\ node.else_branch = NoStatement
             THEN /\ driver'.ok
                  /\ vm' = condition.m
             ELSE /\ driver'.ok = branch.ok
                  /\ driver'.error = branch.error
                  /\ vm' = branch.m]_vars

\* Parser::previous has been called with the cursor at 0: the subtraction
\* current - 1 has underflowed and the call has ended the parse with a panic.
PreviousUnderflowed == parser.pc = "panicked" /\ parser.current = 0

\* C29: for every token list ending with a single Eof, Parser::previous is
\* never called while the cursor is 0, whatever the first token is, and the
\* cursor never exceeds the index of the Eof token.
C29_CursorStaysInTokenList ==
    parser.pc # "idle" =>
        /\ ~PreviousUnderflowed
        /\ parser.current <= Len(parser.tokens) - 1

\* An assignment to a has been made from the innermost of three
\* environments, a being bound in the global one only and b in the middle
\* one: the walk for a has borrowed all three cells.
C30_AssignedAcrossThreeCells ==
    /\ driver.pc = "calling"
    /\ driver.op = "assign"
    /\ driver.name = "a"
    /\ driver.ok
    /\ vm.environment = 3
    /\ DOMAIN vm.envs[3].values = {}
    /\ DOMAIN vm.envs[2].values = {"b"}
    /\ DOMAIN vm.envs[1].values = {"a"}
    /\ vm.envs[2].values["b"] = NumberValue(Whole(1))
    /\ vm.envs[1].values["a"] = NumberValue(Whole(1))

\* C30: no environment cell is borrowed mutably while another borrow of the
\* cell is alive.  No declaration, read or assignment, at any nesting
\* depth, has ended in a borrow panic or left a guard alive; and from every
\* state the walk of a read or of an assignment along the chain borrows
\* without a conflict and takes at most one guard of each cell.
C30_NoBorrowConflict ==
    /\ vm.pc # "panicked"
    /\ vm.borrows = <<>>
    /\ vm.pc = "ready" =>
          \A name \in EnvNames, mutable \in BOOLEAN :
              LET walked == borrow_chain(vm, vm.environment, name, mutable)
              IN /\ walked.pc # "panicked"
                 /\ \A i, j \in 1..Len(walked.borrows) :
                       walked.borrows[i][1] = walked.borrows[j][1] => i = j
                 /\ Len(walked.borrows) >= 1
                 /\ walked.borrows[1][1] = vm.environment

=============================================================================
